---- MODULE Spec2Model ----
(***************************************************************************)
(* A model of the Aether gateway's streaming dispatch path (StreamContext, *)
(* StreamProcessor), of its video task poller (VideoTaskPollerAdapter), of *)
(* its format compatibility decision and of its billing services.          *)
(*                                                                         *)
(* The specifications of the module:                                       *)
(*   Spec        one client request: failover loop, prefetch, streaming    *)
(*   FairSpec    Spec plus the fairness the asyncio runtime gives          *)
(*   VideoSpec   one VideoTask under the three-phase poll and cancel       *)
(*   FormatSpec  calls of is_format_compatible and build_candidates        *)
(*   BillingSpec calls of calculate and calculate_with_shadow              *)
(*   SignatureSpec calls of the signature functions and of                 *)
(*               normalize_input_tokens_for_billing                        *)
(***************************************************************************)
EXTENDS Integers, Sequences, FiniteSets, TLC

VARIABLES
    ctx,            \* the request's StreamContext
    pc,             \* position of the request's dispatcher
    attempt,        \* attempts started so far for this request
    inflight,       \* attempts whose upstream response is open
    max_prefetch_lines, \* argument of prefetch_and_check_error
    upstream,       \* lines the upstream iterator has produced this attempt
    iter,           \* upstream line iterator: "open", "eof", "failed"
    prefetched_lines, \* lines held back by prefetch_and_check_error
    prefetchError,  \* what prefetch met: "none", "embedded", "html", "transport"
    gen,            \* create_response_stream generator
    nextPrefetched, \* index of the next prefetched line to forward
    sse,            \* SSEEventParser: the event being assembled
    startCalls,     \* invocations of on_streaming_start this attempt
    emitted,        \* chunks yielded by create_response_stream
    sent,           \* chunks delivered to the client
    mon,            \* create_monitored_stream generator
    response_ctx,   \* upstream response context: "none", "open", "released"
    http_client,    \* HTTP client of the attempt: "none", "open", "released"
    cleanupRaised,  \* an exception left _cleanup
    task,           \* the VideoTask row
    now,            \* wall clock, in seconds
    poll,           \* per poller: phase of the poll in flight
    pollCtx,        \* per poller: the VideoPollContext captured in prepare
    settled,        \* number of finalize_video_task invocations
    updated,        \* what the last update_task_after_poll did in its session
    lock,           \* the key task_poller:video:lock: its holder and expiry
    ticking,        \* poller processes inside a tick
    session,        \* per poller: the DB session it holds
    compat,         \* the last call of is_format_compatible: args and result
    sched,          \* the last call of build_candidates: args and result
    billing,        \* the last call of BillingService.calculate
    shadow,         \* the last call of calculate_with_shadow
    sig,            \* the last call of the signature functions
    tokens,         \* the last call of normalize_input_tokens_for_billing
    detect,         \* the last call of the request detection functions
    _rule_cache,    \* BillingCache._rule_cache: entries in insertion order
    clock,          \* time.time() as the billing cache reads it
    got,            \* the last BillingCache.get_rule: arguments, result, what it left
    due,            \* the last call of list_due_task_ids: the table, the arguments, the ids
    submit,         \* the failover loop of one video submission
    rule,           \* the last call of BillingRuleService.find_rule
    evict           \* a read and a store on a cache filled by earlier traffic

\* the state of the components a request or a poll never touches
callVars == <<compat, sched, billing, shadow, sig, tokens, detect, _rule_cache, clock, got, due, submit, rule, evict>>
reqVars == <<pc, attempt, inflight, max_prefetch_lines, upstream, iter,
             prefetched_lines, prefetchError, gen, nextPrefetched, sse,
             startCalls, emitted, sent, mon, response_ctx, http_client,
             cleanupRaised, callVars>>
videoVars == <<task, now, poll, pollCtx, settled, updated, lock, ticking, session,
               callVars>>
vars == <<ctx, reqVars, videoVars>>

\* the state of the request and of the video task
programVars == <<ctx, pc, attempt, inflight, max_prefetch_lines, upstream,
                 iter, prefetched_lines, prefetchError, gen, nextPrefetched,
                 sse, startCalls, emitted, sent, mon, response_ctx,
                 http_client, cleanupRaised, task, now, poll, pollCtx,
                 settled, updated, lock, ticking, session>>

\* the call variables hold the one call under study
NoCallMade ==
    /\ ~compat.called /\ ~sched.called /\ ~billing.called /\ ~shadow.called
    /\ ~sig.called /\ ~tokens.called /\ ~detect.called /\ ~due.called
    /\ submit.pc = "idle" /\ ~rule.called /\ ~evict.called

None == "None"
Absent == -1   \* None where the value would be an integer

(***************************************************************************)
(* Bounds of the model.                                                    *)
(***************************************************************************)
MaxLines == 3        \* lines one upstream response may produce
NumCandidates == 2   \* candidates the scheduler ranked for the request
MaxPrefetch == 2     \* largest max_prefetch_lines a caller passes
MaxTime == 3         \* scheduler intervals the clock of VideoSpec runs
MaxPolls == 2        \* max_poll_count of the task
MaxEndpoints == 2    \* endpoints of the provider build_candidates is given
MaxSignatureLen == 5 \* pieces of a string handed to parse_signature_key
MaxTokens == 2       \* largest token count of a usage
MaxClock == 6        \* clock steps the billing cache lives through
MaxTasks == 2        \* rows of the video_tasks table list_due_task_ids scans
MaxRanked == 3       \* candidates the scheduler ranked for a video submission
MaxTemplates == 2    \* templates the modules under rule_defs export

(***************************************************************************)
(* StreamContext                                                           *)
(***************************************************************************)
Models == {"gpt"}
ApiFormats == {"claude:chat"}

\* the dataclass defaults for a given model and api_format
StreamContext(model, api_format) ==
    [ model |-> model,
      api_format |-> api_format,
      provider_name |-> None,
      provider_id |-> None,
      endpoint_id |-> None,
      key_id |-> None,
      attempt_id |-> None,
      provider_api_format |-> None,
      mapped_model |-> None,
      input_tokens |-> 0,
      output_tokens |-> 0,
      cached_tokens |-> 0,
      cache_creation_tokens |-> 0,
      collected_text |-> <<>>,
      status_code |-> 200,
      error_message |-> None,
      has_completion |-> FALSE,
      response_headers |-> {},
      provider_request_headers |-> {},
      provider_request_body |-> None,
      data_count |-> 0,
      chunk_count |-> 0,
      parsed_chunks |-> <<>> ]

\* a reset that forgets to restore status_code
reset_keeps_status(c) ==
    [c EXCEPT !.parsed_chunks = <<>>, !.chunk_count = 0, !.data_count = 0,
              !.has_completion = FALSE, !.collected_text = <<>>,
              !.input_tokens = 0, !.output_tokens = 0, !.cached_tokens = 0,
              !.cache_creation_tokens = 0, !.error_message = None,
              !.response_headers = {}, !.provider_request_headers = {},
              !.provider_request_body = None]

reset_for_retry(c) ==
    [c EXCEPT !.parsed_chunks = <<>>,
              !.chunk_count = 0,
              !.data_count = 0,
              !.has_completion = FALSE,
              !.collected_text = <<>>,
              !.input_tokens = 0,
              !.output_tokens = 0,
              !.cached_tokens = 0,
              !.cache_creation_tokens = 0,
              !.error_message = None,
              !.status_code = 200,
              !.response_headers = {},
              !.provider_request_headers = {},
              !.provider_request_body = None]

update_provider_info(c, provider_name, provider_id, endpoint_id, key_id, provider_api_format) ==
    [c EXCEPT !.provider_name = provider_name,
              !.provider_id = provider_id,
              !.endpoint_id = endpoint_id,
              !.key_id = key_id,
              !.provider_api_format = provider_api_format]

\* an argument that is None (Absent) leaves the counter alone
update_usage(c, input_tokens, output_tokens, cached_tokens, cache_creation_tokens) ==
    [c EXCEPT !.input_tokens =
                  IF input_tokens # Absent THEN input_tokens ELSE @,
              !.output_tokens =
                  IF output_tokens # Absent THEN output_tokens ELSE @,
              !.cached_tokens =
                  IF cached_tokens # Absent THEN cached_tokens ELSE @,
              !.cache_creation_tokens =
                  IF cache_creation_tokens # Absent THEN cache_creation_tokens
                  ELSE @]

mark_failed(c, status_code, error_message) ==
    [c EXCEPT !.status_code = status_code, !.error_message = error_message]

is_success(c) == c.status_code < 400

(***************************************************************************)
(* Upstream lines.  A line is its SSE field prefix, the text after it and  *)
(* whether it ends in a carriage return.                                   *)
(***************************************************************************)
Line(prefix, body, cr) == [prefix |-> prefix, body |-> body, cr |-> cr]

Lines ==
    { Line("", "", FALSE),                   \* blank line
      Line(":", "keepalive", FALSE),         \* comment
      Line("data: ", "[DONE]", FALSE),
      Line("data: ", "{error}", FALSE),      \* a dict the parser calls an error
      Line("", "{error}", TRUE),             \* the same as a bare JSON body
      Line("data: ", "{chunk}", TRUE),       \* a dict carrying text and usage
      Line("", "{", FALSE),                  \* first line of a pretty-printed
      Line("", "error}", FALSE) }            \*   error body, and its last line

\* line.rstrip("\r"): the text without the trailing carriage return
rstrip(line) == [prefix |-> line.prefix, body |-> line.body]

is_empty(normalized_line) ==
    normalized_line.prefix = "" /\ normalized_line.body = ""

\* json.loads: "dict", "other" (valid JSON of another type) or "JSONDecodeError"
json_loads(data_str) ==
    CASE data_str \in {"{error}", "{chunk}"} -> "dict"
      [] data_str = "[1]" -> "other"
      [] OTHER -> "JSONDecodeError"

\* the response parser's verdicts on a decoded dict
is_error_response(data) == data = "{error}"

\* an empty usage dict is the record with present = FALSE; a key the dict
\* lacks (usage.get(...) is None) is Absent
extract_usage_from_response(data) ==
    IF data = "{chunk}"
    THEN [present |-> TRUE, input_tokens |-> 2, output_tokens |-> 1,
          cache_read_tokens |-> Absent, cache_creation_tokens |-> Absent]
    ELSE [present |-> FALSE, input_tokens |-> Absent, output_tokens |-> Absent,
          cache_read_tokens |-> Absent, cache_creation_tokens |-> Absent]

extract_text_content(data) == IF data = "{chunk}" THEN <<"a">> ELSE <<>>

\* data.get("type", ""): no dict of the vocabulary carries a type
data_type(data) == ""

(***************************************************************************)
(* SSEEventParser: lines are gathered into an event, which an empty line   *)
(* completes.                                                              *)
(***************************************************************************)
SSEEventParser == [event |-> "", data |-> <<>>]

\* the data string of an event: several data lines joined are no JSON value
event_data(p) ==
    IF Len(p.data) = 0 THEN ""
    ELSE IF Len(p.data) = 1 THEN p.data[1]
    ELSE "multi-line"

\* feed_line: <<parser after the line, events completed by it>>
feed_line(p, normalized_line) ==
    IF is_empty(normalized_line)
    THEN IF p = SSEEventParser
         THEN <<p, <<>>>>
         ELSE <<SSEEventParser, <<[event |-> p.event, data |-> event_data(p)]>>>>
    ELSE IF normalized_line.prefix = "event: "
    THEN <<[p EXCEPT !.event = normalized_line.body], <<>>>>
    ELSE IF normalized_line.prefix = "data: "
    THEN <<[p EXCEPT !.data = Append(@, normalized_line.body)], <<>>>>
    ELSE <<p, <<>>>>

\* flush: the event left unfinished when the stream ends
flush(p) ==
    IF p = SSEEventParser THEN <<>>
    ELSE <<[event |-> p.event, data |-> event_data(p)]>>

(***************************************************************************)
(* StreamProcessor: event handling                                         *)
(***************************************************************************)
handle_sse_event(c, event_name, data_str) ==
    IF data_str = "" THEN c
    ELSE IF data_str = "[DONE]" THEN [c EXCEPT !.has_completion = TRUE]
    ELSE IF json_loads(data_str) = "JSONDecodeError" THEN c
    ELSE IF json_loads(data_str) # "dict"
    THEN [c EXCEPT !.data_count = @ + 1]
    ELSE LET usage == extract_usage_from_response(data_str)
             c1 == [c EXCEPT !.data_count = @ + 1,
                             !.parsed_chunks = Append(@, data_str)]
             c2 == IF usage.present
                   THEN update_usage(c1, usage.input_tokens,
                                     usage.output_tokens,
                                     usage.cache_read_tokens,
                                     usage.cache_creation_tokens)
                   ELSE c1
             c3 == [c2 EXCEPT !.collected_text =
                                  @ \o extract_text_content(data_str)]
             event_type == IF event_name # "" THEN event_name
                           ELSE data_type(data_str)
         IN  IF event_type \in {"response.completed", "message_stop"}
             THEN [c3 EXCEPT !.has_completion = TRUE]
             ELSE c3

RECURSIVE handle_events(_, _)
\* for event in events: self.handle_sse_event(ctx, event["event"], event["data"])
handle_events(c, events) ==
    IF events = <<>> THEN c
    ELSE handle_events(handle_sse_event(c, Head(events).event,
                                        Head(events).data),
                       Tail(events))

\* the chunk _process_line returns for a line
chunk_of(line) ==
    IF is_empty(rstrip(line)) THEN [newline |-> TRUE, line |-> Line("", "", FALSE)]
    ELSE [newline |-> FALSE, line |-> line]

\* a line handler that keeps the blank lines to itself
process_line_drops_blank(c, p, line) ==
    LET fed == feed_line(p, rstrip(line))
        counted == IF is_empty(rstrip(line)) THEN c
                   ELSE [c EXCEPT !.chunk_count = @ + 1]
    IN  [ctx |-> handle_events(counted, fed[2]),
         sse |-> fed[1],
         result |-> IF is_empty(rstrip(line)) THEN <<>>
                    ELSE <<chunk_of(line)>>]

\* _process_line: [ctx, sse, result] after one line
process_line(c, p, line) ==
    LET fed == feed_line(p, rstrip(line))
        counted == IF is_empty(rstrip(line)) THEN c
                   ELSE [c EXCEPT !.chunk_count = @ + 1]
    IN  [ctx |-> handle_events(counted, fed[2]),
         sse |-> fed[1],
         result |-> <<chunk_of(line)>>]

(***************************************************************************)
(* StreamProcessor: prefetch                                               *)
(***************************************************************************)
\* the text json.loads is given for a prefetched line
data_str_of(normalized_line) ==
    IF normalized_line.prefix = "data: " THEN normalized_line.body
    ELSE normalized_line.prefix \o normalized_line.body

\* an error body the prefetch loop takes for ordinary data
prefetch_step_blind(line, line_count, max_lines) ==
    LET normalized_line == rstrip(line)
        data_str == data_str_of(normalized_line)
    IN  IF is_empty(normalized_line) \/ normalized_line.prefix = ":"
        THEN IF line_count >= max_lines THEN "break" ELSE "continue"
        ELSE IF data_str = "[DONE]" THEN "break"
        ELSE IF json_loads(data_str) = "JSONDecodeError"
        THEN IF line_count >= max_lines THEN "break" ELSE "continue"
        ELSE "break"

\* a prefetch loop that does not count blank and comment lines
prefetch_step_skipping_blank(line, line_count, max_lines) ==
    LET normalized_line == rstrip(line)
        data_str == data_str_of(normalized_line)
    IN  IF is_empty(normalized_line) \/ normalized_line.prefix = ":"
        THEN "continue"
        ELSE IF data_str = "[DONE]" THEN "break"
        ELSE IF json_loads(data_str) = "JSONDecodeError"
        THEN IF line_count >= max_lines THEN "break" ELSE "continue"
        ELSE IF json_loads(data_str) = "dict" /\ is_error_response(data_str)
        THEN "raise"
        ELSE "break"

\* one turn of the prefetch loop on the line just appended, the line_count-th:
\* "continue", "break" or "raise" (EmbeddedErrorException)
prefetch_step(line, line_count, max_lines) ==
    LET normalized_line == rstrip(line)
        data_str == data_str_of(normalized_line)
    IN  IF is_empty(normalized_line) \/ normalized_line.prefix = ":"
        THEN IF line_count >= max_lines THEN "break" ELSE "continue"
        ELSE IF data_str = "[DONE]" THEN "break"
        ELSE IF json_loads(data_str) = "JSONDecodeError"
        THEN IF line_count >= max_lines THEN "break" ELSE "continue"
        ELSE IF json_loads(data_str) = "dict" /\ is_error_response(data_str)
        THEN "raise"
        ELSE "break"

\* b"".join(prefetched_chunks).lstrip(): whitespace-only chunks drop out
joined_text(prefetched_chunks) ==
    LET solid == SelectSeq(prefetched_chunks,
                           LAMBDA l : ~is_empty(rstrip(l)))
    IN  [i \in 1..Len(solid) |-> solid[i].prefix \o solid[i].body]

\* json.loads of the joined payload, as the string of the equivalent one-line body
joined_json(texts) ==
    IF texts = <<"{error}">> \/ texts = <<"{", "error}">> THEN "{error}"
    ELSE IF texts = <<"[1]">> THEN "[1]"
    ELSE "not json"

starts_with_html(texts) ==
    texts # <<>> /\ texts[1] \in {"<!doctype html>", "<html>"}

starts_with_json(texts) ==
    texts # <<>> /\ texts[1] \in {"{error}", "{", "[1]", "[DONE]"}

\* "none", "html" (ProviderNotAvailableException) or "embedded"
\* (EmbeddedErrorException)
check_prefetched_response_error(prefetched_chunks) ==
    LET texts == joined_text(prefetched_chunks)
    IN  IF prefetched_chunks = <<>> THEN "none"
        ELSE IF starts_with_html(texts) THEN "html"
        ELSE IF starts_with_json(texts)
                /\ json_loads(joined_json(texts)) = "dict"
                /\ is_error_response(joined_json(texts))
        THEN "embedded"
        ELSE "none"

(***************************************************************************)
(* StreamProcessor: cleanup and the disconnect monitor                     *)
(***************************************************************************)
\* a cleanup that lets the exception of __aexit__ escape
cleanup_unguarded(aexit_raises, aclose_raises) ==
    IF aexit_raises
    THEN [response_ctx |-> "release_raised", http_client |-> "open",
          raised |-> TRUE]
    ELSE [response_ctx |-> "released",
          http_client |-> IF aclose_raises THEN "release_raised"
                          ELSE "released",
          raised |-> FALSE]

\* _cleanup: both releases are attempted, each in its own try/except
cleanup(aexit_raises, aclose_raises) ==
    [response_ctx |-> IF aexit_raises THEN "release_raised" ELSE "released",
     http_client |-> IF aclose_raises THEN "release_raised" ELSE "released",
     raised |-> FALSE]

\* a monitor that stamps the disconnect as a server error
client_disconnected_as_500(c) ==
    [c EXCEPT !.status_code = 500, !.error_message = "client_disconnected"]

\* what create_monitored_stream writes on a disconnect or a cancellation
client_disconnected(c) ==
    [c EXCEPT !.status_code = 499, !.error_message = "client_disconnected"]

\* what create_monitored_stream writes on any other exception e: str(e)
stream_failed(c, e) ==
    [c EXCEPT !.status_code = 500, !.error_message = e]

(***************************************************************************)
(* VideoTask and VideoTaskPollerAdapter                                    *)
(***************************************************************************)
Pollers == {"poller-1", "poller-2"}
lock_key == "task_poller:video:lock"
lock_ttl == 60
Unlocked == [holder |-> None, expires_at |-> 0]
PollIntervals == {30}          \* config.video_poll_interval_seconds
max_backoff_seconds == 300
Horizon == MaxTime * 30        \* the clock stops here

ActiveStatuses == {"submitted", "queued", "processing"}
TerminalStatuses == {"completed", "failed", "cancelled"}

\* a str.lower() that leaves the text as it is
lower_not_applied(text) == text

\* str.lower()
lower(text) ==
    [i \in 1..Len(text) |->
        CASE text[i] = "OPENAI" -> "openai"
          [] text[i] = "CHAT" -> "chat"
          [] text[i] = "Bearer" -> "bearer"
          [] text[i] = "Not Found" -> "not found"
          [] text[i] = "Does Not Exist" -> "does not exist"
          [] OTHER -> text[i]]

_PERMANENT_ERROR_INDICATORS ==
    {"not found", "404", "unauthorized", "401", "forbidden", "403",
     "invalid request", "invalid api key", "does not exist"}

\* the row _create_task_record inserts at time t
VideoTask(t, interval, max_polls) ==
    [status |-> "submitted",
     endpoint_id |-> "endpoint-1",
     key_id |-> "key-1",
     external_task_id |-> "operations/abc",
     poll_interval_seconds |-> interval,
     next_poll_at |-> t + interval,
     poll_count |-> 0,
     max_poll_count |-> max_polls,
     retry_count |-> 0,
     progress_percent |-> 0,
     video_url |-> None,
     error_code |-> None,
     completed_at |-> Absent]

Idle == [phase |-> "idle", status |-> "processing", video_url |-> None,
         error_code |-> None, exception |-> "none", status_code |-> Absent,
         message |-> <<>>, http_called |-> FALSE]

NoContext == [present |-> FALSE, external_task_id |-> "", poll_count |-> 0,
              retry_count |-> 0, poll_interval_seconds |-> 0,
              max_poll_count |-> 0, current_status |-> None]

\* the VideoPollContext prepare_poll_context builds from the row
VideoPollContext(t) ==
    [present |-> TRUE,
     external_task_id |-> IF t.external_task_id = None THEN ""
                          ELSE t.external_task_id,
     poll_count |-> t.poll_count,
     retry_count |-> t.retry_count,
     poll_interval_seconds |-> t.poll_interval_seconds,
     max_poll_count |-> t.max_poll_count,
     current_status |-> t.status]

\* PollHTTPError(status_code, message): str(exc) carries the status code
PollHTTPError(status_code, message) ==
    [Idle EXCEPT !.phase = "polled", !.exception = "PollHTTPError",
                 !.status_code = status_code,
                 !.message = IF message # <<>>
                             THEN <<"HTTP", ToString(status_code), ":">> \o message
                             ELSE <<"HTTP", ToString(status_code)>>]

\* what the upstream GET can come back with: an InternalVideoPollResult, a
\* PollHTTPError (status >= 400) or another exception (its words as message)
PollOutcomes ==
    LET returned ==
    { [Idle EXCEPT !.phase = "polled", !.status = "processing"],
      [Idle EXCEPT !.phase = "polled", !.status = "completed",
                   !.video_url = "https://video"],
      [Idle EXCEPT !.phase = "polled", !.status = "failed",
                   !.error_code = "generation_failed"],
      PollHTTPError(404, <<>>),
      PollHTTPError(500, <<>>),
      PollHTTPError(429, <<"Too Many Requests">>),
      PollHTTPError(500, <<"model", "Does Not Exist">>),
      [Idle EXCEPT !.phase = "polled", !.exception = "ReadTimeout",
                   !.message = <<"read", "timed out">>],
      [Idle EXCEPT !.phase = "polled", !.exception = "RuntimeError",
                   !.message = <<"operation", "Not Found">>] }
    IN  {[outcome EXCEPT !.http_called = TRUE] : outcome \in returned}

list_due(t, at) ==
    /\ t.status \in ActiveStatuses
    /\ t.next_poll_at <= at
    /\ t.poll_count < t.max_poll_count

\* 2 ** n
RECURSIVE pow2(_)
pow2(n) == IF n = 0 THEN 1 ELSE 2 * pow2(n - 1)

min(a, b) == IF a <= b THEN a ELSE b

\* a timeout check that lets a task reach max_poll_count
check_timeout_above(t, at) ==
    IF t.poll_count > t.max_poll_count /\ t.status \notin TerminalStatuses
    THEN [t EXCEPT !.status = "failed",
                   !.error_code = "poll_timeout",
                   !.completed_at = at]
    ELSE t

\* a classification that looks for the indicators in every message
_is_permanent_error_by_message(message, status_code) ==
    \/ status_code # Absent
          /\ 400 <= status_code /\ status_code < 500 /\ status_code # 429
    \/ \E i \in 1..Len(message) : lower(message)[i] \in _PERMANENT_ERROR_INDICATORS

\* status_code is Absent for an exception that is no PollHTTPError
_is_permanent_error(message, status_code) ==
    IF status_code # Absent
    THEN 400 <= status_code /\ status_code < 500 /\ status_code # 429
    ELSE \E i \in 1..Len(message) : lower(message)[i] \in _PERMANENT_ERROR_INDICATORS

\* an error handler that counts the retry and forgets to push next_poll_at
_handle_poll_error_no_backoff(t, exc, c, at) ==
    LET counted == [t EXCEPT !.poll_count = @ + 1]
    IN  IF _is_permanent_error(exc.message, exc.status_code)
        THEN [counted EXCEPT !.status = "failed",
                             !.error_code = "poll_permanent_error",
                             !.completed_at = at]
        ELSE [counted EXCEPT !.retry_count = @ + 1]

_handle_poll_error(t, exc, c, at) ==
    LET counted == [t EXCEPT !.poll_count = @ + 1]
    IN  IF _is_permanent_error(exc.message, exc.status_code)
        THEN [counted EXCEPT !.status = "failed",
                             !.error_code = "poll_permanent_error",
                             !.completed_at = at]
        ELSE [counted EXCEPT
                 !.retry_count = @ + 1,
                 !.next_poll_at =
                     at + min(c.poll_interval_seconds
                                  * pow2(min(c.retry_count, 5)),
                              max_backoff_seconds)]

\* the branch of update_task_after_poll chosen by the poll's outcome
apply_outcome(t, result, c, at) ==
    IF result.exception # "none" /\ c.present
    THEN _handle_poll_error(t, result, c, at)
    ELSE IF result.status = "completed"
    THEN [t EXCEPT !.status = "completed",
                   !.video_url = result.video_url,
                   !.completed_at = at,
                   !.progress_percent = 100]
    ELSE IF result.status = "failed"
    THEN [t EXCEPT !.status = "failed",
                   !.error_code = result.error_code,
                   !.completed_at = at]
    ELSE [t EXCEPT !.poll_count = @ + 1,
                   !.progress_percent = 50,
                   !.next_poll_at = at + t.poll_interval_seconds]

\* an update without the timeout check
check_timeout_skipped(t, at) == t

\* the timeout check that follows
check_timeout(t, at) ==
    IF t.poll_count >= t.max_poll_count /\ t.status \notin TerminalStatuses
    THEN [t EXCEPT !.status = "failed",
                   !.error_code = "poll_timeout",
                   !.completed_at = at]
    ELSE t

\* the row update_task_after_poll commits
update_task_after_poll(t, result, c, at) ==
    check_timeout(apply_outcome(t, result, c, at), at)

NoUpdate == [events |-> <<>>, settlement |-> "none"]

Range(seq) == {seq[i] : i \in 1..Len(seq)}

\* an update whose commit is lost when the settlement raises
update_session_aborted_by_settlement(t, settlement) ==
    IF t.status \in {"completed", "failed"}
    THEN [events |-> <<"create_session", "get", "finalize_video_task">>
                        \o (IF settlement = "raised" THEN <<>> ELSE <<"commit">>),
          settlement |-> settlement]
    ELSE [events |-> <<"create_session", "get", "commit">>, settlement |-> "none"]

\* the calls update_task_after_poll makes on its session once the row t is
\* what the outcome and the timeout check made it: a completed or failed
\* task is settled, an Exception of the settlement is logged, and the
\* session commits
update_session(t, settlement) ==
    IF t.status \in {"completed", "failed"}
    THEN [events |-> <<"create_session", "get", "finalize_video_task">>
                        \o (IF settlement = "raised"
                            THEN <<"logger.exception">> ELSE <<>>)
                        \o <<"commit">>,
          settlement |-> settlement]
    ELSE [events |-> <<"create_session", "get", "commit">>, settlement |-> "none"]

InitVideo ==
    /\ \E interval \in PollIntervals : task = VideoTask(0, interval, MaxPolls)
    /\ now = 0
    /\ poll = [p \in Pollers |-> Idle]
    /\ pollCtx = [p \in Pollers |-> NoContext]
    /\ settled = 0
    /\ updated = NoUpdate
    /\ lock = Unlocked
    /\ ticking = {}
    /\ session = [p \in Pollers |-> "none"]

\* time passes: one scheduler interval, or up to the task's next poll
Tick ==
    /\ now < Horizon
    /\ \E t \in {now + task.poll_interval_seconds, task.next_poll_at} :
         /\ t > now
         /\ t <= Horizon
         /\ now' = t
    /\ UNCHANGED <<task, poll, pollCtx, settled, updated, lock, ticking, session, ctx,
                   reqVars>>

\* the scheduler of process p fires: the tick goes on only if SET NX EX on
\* lock_key succeeds, that is if the key is absent or has expired; the tick
\* then scans for due tasks (list_due_task_ids)
AcquireLock(p) ==
    /\ p \notin ticking
    /\ lock.holder = None \/ lock.expires_at <= now
    /\ lock' = [holder |-> p, expires_at |-> now + lock_ttl]
    /\ ticking' = ticking \cup {p}
    /\ poll' = [poll EXCEPT ![p] =
                  IF list_due(task, now) THEN [Idle EXCEPT !.phase = "selected"]
                  ELSE Idle]
    /\ UNCHANGED <<task, now, pollCtx, settled, updated, session, ctx, reqVars>>

\* the tick of process p is over: the key is deleted if p still owns it
ReleaseLock(p) ==
    /\ p \in ticking
    /\ poll[p].phase = "idle"
    /\ ticking' = ticking \ {p}
    /\ lock' = IF lock.holder = p THEN Unlocked ELSE lock
    /\ UNCHANGED <<task, now, poll, pollCtx, settled, updated, session, ctx, reqVars>>

\* the selected task's turn comes: it is loaded in a brief DB session
LoadTask(p) ==
    /\ p \in ticking
    /\ poll[p].phase = "selected"
    /\ poll' = [poll EXCEPT ![p] = [Idle EXCEPT !.phase = "loaded"]]
    /\ session' = [session EXCEPT ![p] = "prepare"]
    /\ UNCHANGED <<task, now, pollCtx, settled, updated, lock, ticking, ctx, reqVars>>

\* a prepare whose session stays open over the upstream GET, as in the
\* single-phase poll_single_task
PrepareHoldingSession(p) ==
    /\ poll[p].phase = "loaded"
    /\ poll' = [poll EXCEPT ![p] = [Idle EXCEPT !.phase = "prepared"]]
    /\ pollCtx' = [pollCtx EXCEPT ![p] = VideoPollContext(task)]
    /\ UNCHANGED <<task, now, settled, updated, lock, ticking, session, ctx, reqVars>>

\* phase 1: prepare_poll_context captures what the GET needs or returns a
\* failed result (no provider, no key, key not decryptable); the session it
\* was given is closed when it returns
Prepare(p) ==
    /\ poll[p].phase = "loaded"
    /\ \E key \in {"ok", "no_api_key", "undecryptable"} :
         LET failed(code) == [Idle EXCEPT !.phase = "polled",
                                          !.status = "failed",
                                          !.error_code = code]
         IN  IF task.endpoint_id = None \/ task.key_id = None
             THEN /\ poll' = [poll EXCEPT ![p] = failed("missing_provider_info")]
                  /\ pollCtx' = [pollCtx EXCEPT ![p] = NoContext]
             ELSE IF key = "no_api_key"
             THEN /\ poll' = [poll EXCEPT ![p] = failed("provider_config_error")]
                  /\ pollCtx' = [pollCtx EXCEPT ![p] = NoContext]
             ELSE IF key = "undecryptable"
             THEN /\ poll' = [poll EXCEPT ![p] = failed("decryption_error")]
                  /\ pollCtx' = [pollCtx EXCEPT ![p] = NoContext]
             ELSE /\ poll' = [poll EXCEPT ![p] = [Idle EXCEPT !.phase = "prepared"]]
                  /\ pollCtx' = [pollCtx EXCEPT ![p] = VideoPollContext(task)]
    /\ session' = [session EXCEPT ![p] = "none"]
    /\ UNCHANGED <<task, now, settled, updated, lock, ticking, ctx, reqVars>>

\* a poll_task_http that issues the GET whatever the context holds
poll_task_http_unchecked(c) == PollOutcomes

\* poll_task_http: what it may return or raise for a context; without an
\* external_task_id it returns a failed result and issues no GET
poll_task_http(c) ==
    IF c.external_task_id = ""
    THEN {[Idle EXCEPT !.phase = "polled", !.status = "failed",
                       !.error_code = "missing_external_task_id"]}
    ELSE PollOutcomes

\* phase 2: poll_task_http; it is given the context only, no DB session
PollHttp(p) ==
    /\ poll[p].phase = "prepared"
    /\ \E outcome \in poll_task_http(pollCtx[p]) :
         poll' = [poll EXCEPT ![p] = outcome]
    /\ UNCHANGED <<task, now, pollCtx, settled, updated, lock, ticking, session, ctx,
                   reqVars>>

\* phase 3: update_task_after_poll opens a session of its own, reloads the
\* row, applies the outcome, settles a completed or failed task (the
\* settlement may raise), commits and closes the session
Update(p) ==
    /\ poll[p].phase = "polled"
    /\ \E settlement \in {"ok", "raised"} :
         LET row == update_task_after_poll(task, poll[p], pollCtx[p], now)
             done == update_session(row, settlement)
         IN  /\ updated' = done
             /\ task' = IF "commit" \in Range(done.events) THEN row ELSE task
    /\ settled' = IF "finalize_video_task" \in Range(updated'.events)
                  THEN settled + 1 ELSE settled
    /\ poll' = [poll EXCEPT ![p] = Idle]
    /\ pollCtx' = [pollCtx EXCEPT ![p] = NoContext]
    /\ UNCHANGED <<now, lock, ticking, session, ctx, reqVars>>

\* before its first poll the row loses a reference: its endpoint or its key
\* is deleted, or the row was stored without the upstream's id
LoseReference ==
    /\ now = 0
    /\ task.status = "submitted"
    /\ task.endpoint_id # None /\ task.key_id # None
    /\ task.external_task_id # None
    /\ \E field \in {"endpoint_id", "key_id", "external_task_id"} :
         task' = [task EXCEPT ![field] = None]
    /\ UNCHANGED <<now, poll, pollCtx, settled, updated, lock, ticking,
                   session, ctx, reqVars>>

\* the owner cancels a task that is not terminal yet
Cancel ==
    /\ task.status \notin TerminalStatuses
    /\ task' = [task EXCEPT !.status = "cancelled", !.completed_at = now]
    /\ UNCHANGED <<now, poll, pollCtx, settled, updated, lock, ticking, session, ctx,
                   reqVars>>

\* a timestamp seen from an origin of time that lies at the Horizon; what
\* is already past stays past
rebased(ts) ==
    IF ts = Absent THEN Absent
    ELSE IF ts >= Horizon THEN ts - Horizon
    ELSE 0

\* the clock has run to the Horizon: the origin of time moves there, so
\* that time can pass without end. The code compares
\* timestamps with the current time only, so the move is not observable.
Rebase ==
    /\ now = Horizon
    /\ now' = rebased(now)
    /\ task' = [task EXCEPT !.next_poll_at = rebased(@),
                            !.completed_at = rebased(@)]
    /\ lock' = [lock EXCEPT !.expires_at = rebased(@)]
    /\ UNCHANGED <<poll, pollCtx, settled, updated, ticking, session, ctx, reqVars>>

\* the steps of the tick of process p once it holds the lock
PollerStep(p) ==
    LoadTask(p) \/ Prepare(p) \/ PollHttp(p) \/ Update(p) \/ ReleaseLock(p)

VideoNext ==
    \/ Tick
    \/ \E p \in Pollers : AcquireLock(p)
    \/ \E p \in Pollers : ReleaseLock(p)
    \/ \E p \in Pollers : LoadTask(p)
    \/ \E p \in Pollers : Prepare(p)
    \/ \E p \in Pollers : PollHttp(p)
    \/ \E p \in Pollers : Update(p)
    \/ LoseReference
    \/ Cancel

(***************************************************************************)
(* The request: scheduler failover loop around one attempt at a time       *)
(***************************************************************************)
ProviderNames == <<"provider-a", "provider-b", "provider-c", "provider-d">>

\* the k-th candidate of the ranked list
Candidate(k) ==
    [provider_name |-> ProviderNames[k],
     provider_id |-> ProviderNames[k],
     endpoint_id |-> ProviderNames[k],
     key_id |-> ProviderNames[k],
     provider_api_format |-> IF k = 1 THEN "openai:chat" ELSE "gemini:chat"]

InitRequest ==
    /\ ctx \in {StreamContext(m, f) : m \in Models, f \in ApiFormats}
    /\ pc = "select"
    /\ attempt = 0
    /\ inflight = {}
    /\ max_prefetch_lines \in 1..MaxPrefetch
    /\ upstream = <<>>
    /\ iter = "none"
    /\ prefetched_lines = <<>>
    /\ prefetchError = "none"
    /\ gen = "none"
    /\ nextPrefetched = 1
    /\ sse = SSEEventParser
    /\ startCalls = 0
    /\ emitted = <<>>
    /\ sent = <<>>
    /\ mon = "none"
    /\ response_ctx = "none"
    /\ http_client = "none"
    /\ cleanupRaised = FALSE

\* the scheduler hands the next candidate to the dispatcher, which first
\* resets the context
StartAttempt ==
    /\ pc = "select"
    /\ attempt < NumCandidates
    /\ attempt' = attempt + 1
    /\ ctx' = reset_for_retry(ctx)
    /\ pc' = "resolve"
    /\ upstream' = <<>>
    /\ iter' = "none"
    /\ prefetched_lines' = <<>>
    /\ prefetchError' = "none"
    /\ gen' = "none"
    /\ nextPrefetched' = 1
    /\ sse' = SSEEventParser
    /\ startCalls' = 0
    /\ emitted' = <<>>
    /\ mon' = "none"
    /\ response_ctx' = "none"
    /\ http_client' = "none"
    /\ UNCHANGED <<inflight, max_prefetch_lines, sent, cleanupRaised, videoVars>>

\* the dispatcher records the candidate and the upstream request it builds
Resolve ==
    /\ pc = "resolve"
    /\ LET c == Candidate(attempt)
           c1 == update_provider_info(ctx, c.provider_name, c.provider_id,
                                      c.endpoint_id, c.key_id,
                                      c.provider_api_format)
       IN  ctx' = [c1 EXCEPT !.attempt_id = c.provider_name,
                             !.mapped_model = c.provider_name,
                             !.provider_request_headers = {"authorization"},
                             !.provider_request_body = c.provider_name]
    /\ pc' = "open"
    /\ UNCHANGED <<attempt, inflight, max_prefetch_lines, upstream, iter,
                   prefetched_lines, prefetchError, gen, nextPrefetched, sse,
                   startCalls, emitted, sent, mon, response_ctx, http_client,
                   cleanupRaised, videoVars>>

\* the upstream answers 200 and the stream opens, or it answers 5xx
\* (provider_not_available) and the attempt ends before any line is read
OpenUpstream ==
    /\ pc = "open"
    /\ \E status \in {200, 503} :
         /\ ctx' = [ctx EXCEPT !.status_code = status,
                               !.response_headers = {"content-type"}]
         /\ IF status = 200
            THEN /\ pc' = "prefetch"
                 /\ iter' = "open"
                 /\ inflight' = inflight \cup {attempt}
                 /\ response_ctx' = "open"
                 /\ http_client' = "open"
            ELSE /\ pc' = "select"
                 /\ iter' = "none"
                 /\ inflight' = inflight
                 /\ response_ctx' = "released"
                 /\ http_client' = "released"
    /\ UNCHANGED <<attempt, max_prefetch_lines, upstream, prefetched_lines,
                   prefetchError, gen, nextPrefetched, sse, startCalls,
                   emitted, sent, mon, cleanupRaised, videoVars>>

\* prefetch_and_check_error reads one more line
PrefetchLine ==
    /\ pc = "prefetch"
    /\ iter = "open"
    /\ Len(upstream) < MaxLines
    /\ \E line \in Lines :
         LET step == prefetch_step(line, Len(prefetched_lines) + 1,
                                   max_prefetch_lines)
         IN  /\ upstream' = Append(upstream, line)
             /\ prefetched_lines' = Append(prefetched_lines, line)
             /\ pc' = CASE step = "continue" -> "prefetch"
                        [] step = "break" -> "prefetch_returned"
                        [] step = "raise" -> "prefetch_raised"
             /\ prefetchError' = IF step = "raise" THEN "embedded"
                                 ELSE prefetchError
    /\ UNCHANGED <<ctx, attempt, inflight, max_prefetch_lines, iter, gen,
                   nextPrefetched, sse, startCalls, emitted, sent, mon,
                   response_ctx, http_client, cleanupRaised, videoVars>>

\* the iterator ends while prefetch is still reading
PrefetchExhausted ==
    /\ pc = "prefetch"
    /\ iter = "open"
    /\ iter' = "eof"
    /\ pc' = "prefetch_returned"
    /\ UNCHANGED <<ctx, attempt, inflight, max_prefetch_lines, upstream,
                   prefetched_lines, prefetchError, gen, nextPrefetched, sse,
                   startCalls, emitted, sent, mon, response_ctx, http_client,
                   cleanupRaised, videoVars>>

\* the iterator raises (read timeout, connection reset) while prefetch is
\* reading: the handler logs the exception and returns the lines read so far
PrefetchException ==
    /\ pc = "prefetch"
    /\ iter = "open"
    /\ iter' = "failed"
    /\ prefetchError' = "transport"
    /\ pc' = "prefetch_returned"
    /\ UNCHANGED <<ctx, attempt, inflight, max_prefetch_lines, upstream,
                   prefetched_lines, gen, nextPrefetched, sse, startCalls,
                   emitted, sent, mon, response_ctx, http_client,
                   cleanupRaised, videoVars>>

\* prefetch returned: the buffer as a whole is screened, then the response
\* stream is built from the monitored generator
CheckPrefetched ==
    /\ pc = "prefetch_returned"
    /\ LET found == check_prefetched_response_error(prefetched_lines)
       IN  IF found = "none"
           THEN /\ pc' = "streaming"
                /\ gen' = "created"
                /\ mon' = "running"
                /\ UNCHANGED prefetchError
           ELSE /\ pc' = "prefetch_raised"
                /\ prefetchError' = found
                /\ UNCHANGED <<gen, mon>>
    /\ UNCHANGED <<ctx, attempt, inflight, max_prefetch_lines, upstream, iter,
                   prefetched_lines, nextPrefetched, sse, startCalls, emitted,
                   sent, response_ctx, http_client, cleanupRaised, videoVars>>

\* the exception of the prefetch reaches the scheduler: the attempt's
\* upstream is closed and the next candidate is due
AttemptFailed ==
    /\ pc = "prefetch_raised"
    /\ pc' = "select"
    /\ inflight' = inflight \ {attempt}
    /\ response_ctx' = "released"
    /\ http_client' = "released"
    /\ UNCHANGED <<ctx, attempt, max_prefetch_lines, upstream, iter,
                   prefetched_lines, prefetchError, gen, nextPrefetched, sse,
                   startCalls, emitted, sent, mon, cleanupRaised, videoVars>>

\* no candidate is left
GiveUp ==
    /\ pc = "select"
    /\ attempt = NumCandidates
    /\ pc' = "failed"
    /\ UNCHANGED <<ctx, attempt, inflight, max_prefetch_lines, upstream, iter,
                   prefetched_lines, prefetchError, gen, nextPrefetched, sse,
                   startCalls, emitted, sent, mon, response_ctx, http_client,
                   cleanupRaised, videoVars>>

(***************************************************************************)
(* Streaming: create_monitored_stream around create_response_stream        *)
(***************************************************************************)
\* what the monitor meets after the inner generator yielded a chunk:
\* is_disconnected() is false, it is true, or the task is cancelled in it
MonitorOutcomes == {"deliver", "disconnected", "cancelled"}

\* the inner generator processed `line` and yielded; the monitor handles it
Yield(line, outcome) ==
    LET r == process_line(ctx, sse, line)
    IN  /\ sse' = r.sse
        /\ emitted' = emitted \o r.result
        /\ gen' = "suspended"
        /\ IF outcome = "deliver"
           THEN /\ ctx' = r.ctx
                /\ sent' = sent \o r.result
                /\ UNCHANGED <<mon, pc>>
           ELSE /\ ctx' = client_disconnected(r.ctx)
                /\ mon' = outcome
                /\ pc' = "done"
                /\ UNCHANGED sent

\* _cleanup runs in the generator's finally block
Cleanup ==
    \E aexit_raises \in BOOLEAN, aclose_raises \in BOOLEAN :
        LET done == cleanup(aexit_raises, aclose_raises)
        IN  /\ response_ctx' = done.response_ctx
            /\ http_client' = done.http_client
            /\ cleanupRaised' = done.raised
            /\ inflight' = inflight \ {attempt}

\* a generator that calls on_streaming_start without looking at
\* streaming_started
notify_streaming_start_unguarded(calls) == calls + 1

\* if not streaming_started and self.on_streaming_start: the callback is
\* called and streaming_started set; calls counts the invocations, and
\* streaming_started is true once there was one
notify_streaming_start(calls) == IF calls = 0 THEN calls + 1 ELSE calls

\* the next prefetched line is forwarded; the callback comes before the
\* first of them
StreamPrefetched ==
    /\ pc = "streaming"
    /\ mon = "running"
    /\ gen \in {"created", "suspended"}
    /\ nextPrefetched <= Len(prefetched_lines)
    /\ \E outcome \in MonitorOutcomes :
         Yield(prefetched_lines[nextPrefetched], outcome)
    /\ nextPrefetched' = nextPrefetched + 1
    /\ startCalls' = IF nextPrefetched = 1 THEN notify_streaming_start(startCalls)
                     ELSE startCalls
    /\ UNCHANGED <<attempt, inflight, max_prefetch_lines, upstream, iter,
                   prefetched_lines, prefetchError, response_ctx, http_client,
                   cleanupRaised, videoVars>>

\* a line of the live iterator is read and forwarded
StreamLive ==
    /\ pc = "streaming"
    /\ mon = "running"
    /\ gen \in {"created", "suspended"}
    /\ nextPrefetched > Len(prefetched_lines)
    /\ iter = "open"
    /\ Len(upstream) < MaxLines
    /\ \E line \in Lines, outcome \in MonitorOutcomes :
         /\ upstream' = Append(upstream, line)
         /\ Yield(line, outcome)
    /\ startCalls' = notify_streaming_start(startCalls)
    /\ UNCHANGED <<attempt, inflight, max_prefetch_lines, iter,
                   prefetched_lines, prefetchError, nextPrefetched,
                   response_ctx, http_client, cleanupRaised, videoVars>>

\* the live iterator is exhausted (an iterator that raised during prefetch
\* is exhausted too): pending events are flushed, the generator returns
StreamEnd ==
    /\ pc = "streaming"
    /\ mon = "running"
    /\ gen \in {"created", "suspended"}
    /\ nextPrefetched > Len(prefetched_lines)
    /\ iter \in {"open", "eof", "failed"}
    /\ iter' = IF iter = "open" THEN "eof" ELSE iter
    /\ ctx' = handle_events(ctx, flush(sse))
    /\ sse' = SSEEventParser
    /\ Cleanup
    /\ gen' = "finished"
    /\ mon' = "finished"
    /\ pc' = "done"
    /\ UNCHANGED <<attempt, max_prefetch_lines, upstream, prefetched_lines,
                   prefetchError, nextPrefetched, startCalls, emitted, sent,
                   videoVars>>

\* the live iterator raises: the generator cleans up, the monitor stamps 500
StreamException ==
    /\ pc = "streaming"
    /\ mon = "running"
    /\ gen \in {"created", "suspended"}
    /\ nextPrefetched > Len(prefetched_lines)
    /\ iter = "open"
    /\ iter' = "failed"
    /\ ctx' = stream_failed(ctx, "ReadTimeout")
    /\ Cleanup
    /\ gen' = "raised"
    /\ mon' = "raised"
    /\ pc' = "done"
    /\ UNCHANGED <<attempt, max_prefetch_lines, upstream, prefetched_lines,
                   prefetchError, nextPrefetched, sse, startCalls, emitted,
                   sent, videoVars>>

\* the task is cancelled while the generator awaits the next live line
StreamCancelled ==
    /\ pc = "streaming"
    /\ mon = "running"
    /\ gen \in {"created", "suspended"}
    /\ nextPrefetched > Len(prefetched_lines)
    /\ iter = "open"
    /\ ctx' = client_disconnected(ctx)
    /\ Cleanup
    /\ gen' = "cancelled"
    /\ mon' = "cancelled"
    /\ pc' = "done"
    /\ UNCHANGED <<attempt, max_prefetch_lines, upstream, iter,
                   prefetched_lines, prefetchError, nextPrefetched, sse,
                   startCalls, emitted, sent, videoVars>>

\* the consumer closes the monitored generator between two chunks
ConsumerClose ==
    /\ pc = "streaming"
    /\ mon = "running"
    /\ gen = "suspended"
    /\ mon' = "closed"
    /\ pc' = "done"
    /\ UNCHANGED <<ctx, attempt, inflight, max_prefetch_lines, upstream, iter,
                   prefetched_lines, prefetchError, gen, nextPrefetched, sse,
                   startCalls, emitted, sent, response_ctx, http_client,
                   cleanupRaised, videoVars>>

\* a generator closed at its yield whose finally block releases nothing
FinalizeNoCleanup ==
    /\ gen = "suspended"
    /\ mon \in {"disconnected", "cancelled", "closed"}
    /\ gen' = "closed"
    /\ UNCHANGED <<ctx, pc, attempt, inflight, max_prefetch_lines, upstream,
                   iter, prefetched_lines, prefetchError, nextPrefetched, sse,
                   startCalls, emitted, sent, mon, response_ctx, http_client,
                   cleanupRaised, videoVars>>

\* the monitor is gone and the suspended generator is closed (aclose by the
\* event loop's async-generator finalizer): GeneratorExit at its yield
Finalize ==
    /\ gen = "suspended"
    /\ mon \in {"disconnected", "cancelled", "closed"}
    /\ Cleanup
    /\ gen' = "closed"
    /\ UNCHANGED <<ctx, pc, attempt, max_prefetch_lines, upstream, iter,
                   prefetched_lines, prefetchError, nextPrefetched, sse,
                   startCalls, emitted, sent, mon, videoVars>>

Next ==
    \/ StartAttempt
    \/ Resolve
    \/ OpenUpstream
    \/ PrefetchLine
    \/ PrefetchExhausted
    \/ PrefetchException
    \/ CheckPrefetched
    \/ AttemptFailed
    \/ GiveUp
    \/ StreamPrefetched
    \/ StreamLive
    \/ StreamEnd
    \/ StreamException
    \/ StreamCancelled
    \/ ConsumerClose
    \/ Finalize

(***************************************************************************)
(* Format compatibility: is_format_compatible                              *)
(***************************************************************************)
\* format signatures as callers and configs spell them
Formats == {"claude:chat", "CLAUDE:CHAT", "claude:cli", "openai:chat"}

\* str.upper()
upper(f) ==
    CASE f \in {"claude:chat", "CLAUDE:CHAT"} -> "CLAUDE:CHAT"
      [] f \in {"claude:cli", "CLAUDE:CLI"} -> "CLAUDE:CLI"
      [] f \in {"openai:chat", "OPENAI:CHAT"} -> "OPENAI:CHAT"

\* claude:chat and claude:cli carry the same data format
data_format_id(key) ==
    CASE key \in {"CLAUDE:CHAT", "CLAUDE:CLI"} -> "claude"
      [] key = "OPENAI:CHAT" -> "openai_chat"

can_passthrough_endpoint(client_key, provider_key) ==
    data_format_id(client_key) = data_format_id(provider_key)

\* a key of the config dict: "True", "False", or "missing" from the dict
Tri == {"True", "False", "missing"}
FormatLists == SUBSET {"claude:chat", "CLAUDE:CLI"}

\* endpoint.format_acceptance_config: None, a value that is no dict, or a
\* dict with any of its keys missing
NoConfig ==
    [kind |-> "None", enabled |-> "missing", reject_formats |-> {},
     accept_formats |-> {}, stream_conversion |-> "missing"]
AcceptanceConfigs ==
    {NoConfig, [NoConfig EXCEPT !.kind = "list"]}
      \cup {[kind |-> "dict", enabled |-> e, reject_formats |-> r,
              accept_formats |-> a, stream_conversion |-> sc] :
                e \in Tri, r \in FormatLists, a \in FormatLists, sc \in Tri}

\* bool(config.get(key, default)) for a key whose entry is `entry`
get(entry, default) == IF entry = "missing" THEN default ELSE entry = "True"

\* [f.upper() for f in formats]
uppers(formats) == {upper(f) : f \in formats}

Result(is_compatible, needs_conversion, skip_reason) ==
    [is_compatible |-> is_compatible, needs_conversion |-> needs_conversion,
     skip_reason |-> skip_reason]

\* a comparison of the signatures as spelled
same_format_as_spelled(client_format, endpoint_api_format) ==
    endpoint_api_format = client_format

\* provider_key == client_key, both upper-cased
same_format(client_format, endpoint_api_format) ==
    upper(endpoint_api_format) = upper(client_format)

\* an endpoint check that consults accept_formats first
endpoint_check_accept_first(config, client_key, is_stream) ==
    IF config.kind = "None" THEN "no_acceptance_config"
    ELSE IF config.kind # "dict" THEN "invalid_acceptance_config"
    ELSE IF ~get(config.enabled, FALSE) THEN "acceptance_not_enabled"
    ELSE IF config.accept_formats # {}
            /\ client_key \in uppers(config.accept_formats)
    THEN "ok"
    ELSE IF client_key \in uppers(config.reject_formats) THEN "rejected"
    ELSE IF config.accept_formats # {} THEN "not_accepted"
    ELSE IF is_stream /\ ~get(config.stream_conversion, TRUE)
    THEN "no_stream_conversion"
    ELSE "ok"

\* the third switch: the endpoint's config; "ok" or the reason of the refusal
endpoint_check(config, client_key, is_stream) ==
    IF config.kind = "None" THEN "no_acceptance_config"
    ELSE IF config.kind # "dict" THEN "invalid_acceptance_config"
    ELSE IF ~get(config.enabled, FALSE) THEN "acceptance_not_enabled"
    ELSE IF client_key \in uppers(config.reject_formats) THEN "rejected"
    ELSE IF config.accept_formats # {}
            /\ client_key \notin uppers(config.accept_formats)
    THEN "not_accepted"
    ELSE IF is_stream /\ ~get(config.stream_conversion, TRUE)
    THEN "no_stream_conversion"
    ELSE "ok"

\* a decision in which the caller's override also overrides the master switch
is_format_compatible_override_wins(client_format, endpoint_api_format, config, is_stream, effective_conversion_enabled, can_convert_full, skip_endpoint_check) ==
    LET client_key == upper(client_format)
        provider_key == upper(endpoint_api_format)
        checked == IF skip_endpoint_check THEN "ok"
                   ELSE endpoint_check(config, client_key, is_stream)
    IN  IF same_format(client_format, endpoint_api_format)
        THEN Result(TRUE, FALSE, None)
        ELSE IF ~effective_conversion_enabled /\ ~skip_endpoint_check
        THEN Result(FALSE, FALSE, "conversion_disabled")
        ELSE IF checked # "ok" THEN Result(FALSE, FALSE, checked)
        ELSE IF can_passthrough_endpoint(client_key, provider_key)
        THEN Result(TRUE, FALSE, None)
        ELSE IF ~can_convert_full THEN Result(FALSE, FALSE, "no_full_converter")
        ELSE Result(TRUE, TRUE, None)

\* is_format_compatible; can_convert_full is the answer of the registry it
\* is given to registry.can_convert_full(client_key, provider_key, is_stream)
is_format_compatible(client_format, endpoint_api_format, config, is_stream, effective_conversion_enabled, can_convert_full, skip_endpoint_check) ==
    LET client_key == upper(client_format)
        provider_key == upper(endpoint_api_format)
        checked == IF skip_endpoint_check THEN "ok"
                   ELSE endpoint_check(config, client_key, is_stream)
    IN  IF same_format(client_format, endpoint_api_format)
        THEN Result(TRUE, FALSE, None)
        ELSE IF ~effective_conversion_enabled
        THEN Result(FALSE, FALSE, "conversion_disabled")
        ELSE IF checked # "ok" THEN Result(FALSE, FALSE, checked)
        ELSE IF can_passthrough_endpoint(client_key, provider_key)
        THEN Result(TRUE, FALSE, None)
        ELSE IF ~can_convert_full THEN Result(FALSE, FALSE, "no_full_converter")
        ELSE Result(TRUE, TRUE, None)

NoCall ==
    [called |-> FALSE, client_format |-> "claude:chat",
     endpoint_api_format |-> "claude:chat", config |-> NoConfig,
     is_stream |-> FALSE, effective_conversion_enabled |-> FALSE,
     can_convert_full |-> FALSE, skip_endpoint_check |-> FALSE,
     result |-> Result(FALSE, FALSE, None)]

NoSchedule ==
    [called |-> FALSE, endpoints |-> <<>>, client_format |-> "claude:chat",
     global_conversion_enabled |-> FALSE,
     enable_format_conversion |-> FALSE, candidates |-> <<>>]

\* a caller asks whether an endpoint can serve a client format
CheckCompatibility ==
    /\ NoCallMade
    /\ \E client_format \in Formats, endpoint_api_format \in Formats,
          config \in AcceptanceConfigs, is_stream \in BOOLEAN,
          effective_conversion_enabled \in BOOLEAN,
          can_convert_full \in BOOLEAN, skip_endpoint_check \in BOOLEAN :
         compat' =
            [called |-> TRUE, client_format |-> client_format,
             endpoint_api_format |-> endpoint_api_format, config |-> config,
             is_stream |-> is_stream,
             effective_conversion_enabled |-> effective_conversion_enabled,
             can_convert_full |-> can_convert_full,
             skip_endpoint_check |-> skip_endpoint_check,
             result |-> is_format_compatible(client_format,
                            endpoint_api_format, config, is_stream,
                            effective_conversion_enabled, can_convert_full,
                            skip_endpoint_check)]
    /\ UNCHANGED <<programVars, sched, billing, shadow, sig, tokens, detect, _rule_cache, clock, got, due, submit, rule, evict>>

(***************************************************************************)
(* Cache-aware scheduler: build_candidates                                 *)
(***************************************************************************)
\* the endpoint of the provider with the key that serves it
EndpointFormats == {"claude:chat", "claude:cli", "openai:chat"}
Accepting ==
    [kind |-> "dict", enabled |-> "True", reject_formats |-> {},
     accept_formats |-> {"claude:chat"}, stream_conversion |-> "True"]
Endpoints ==
    [api_format : EndpointFormats, format_acceptance_config : {NoConfig, Accepting},
     internal_priority : {1, 2}, affinity_hit : BOOLEAN]
EndpointLists == UNION {[1..n -> Endpoints] : n \in 0..MaxEndpoints}

\* the compatible endpoints in the order of the provider's list; the id of
\* an endpoint is its place in that list
compatible_candidates(endpoints, client_format, global_conversion_enabled, enable_format_conversion, can_convert_full) ==
    LET decision(e) ==
            is_format_compatible(client_format, e.api_format,
                e.format_acceptance_config, FALSE,
                global_conversion_enabled, can_convert_full,
                global_conversion_enabled \/ enable_format_conversion)
        all == [i \in 1..Len(endpoints) |->
                  [endpoint |-> i,
                   provider_api_format |-> endpoints[i].api_format,
                   is_compatible |-> decision(endpoints[i]).is_compatible,
                   needs_conversion |-> decision(endpoints[i]).needs_conversion,
                   internal_priority |-> endpoints[i].internal_priority,
                   affinity_hit |-> endpoints[i].affinity_hit]]
        compatible(c) == c.is_compatible
    IN  SelectSeq(all, compatible)

\* an order that ranks the key's priority above the need of a conversion
ranks_before_by_priority(a, b) ==
    IF a.internal_priority # b.internal_priority
    THEN a.internal_priority < b.internal_priority
    ELSE IF a.needs_conversion # b.needs_conversion THEN ~a.needs_conversion
    ELSE a.endpoint < b.endpoint

\* the order of the candidates: exact format first, then affinity hit,
\* then internal_priority, then endpoint id
ranks_before(a, b) ==
    IF a.needs_conversion # b.needs_conversion THEN ~a.needs_conversion
    ELSE IF a.affinity_hit # b.affinity_hit THEN a.affinity_hit
    ELSE IF a.internal_priority # b.internal_priority
    THEN a.internal_priority < b.internal_priority
    ELSE a.endpoint < b.endpoint

sorted(cs) ==
    LET place(i) == 1 + Cardinality({j \in 1..Len(cs) : ranks_before(cs[j], cs[i])})
    IN  [k \in 1..Len(cs) |-> cs[CHOOSE i \in 1..Len(cs) : place(i) = k]]

build_candidates(endpoints, client_format, global_conversion_enabled, enable_format_conversion, can_convert_full) ==
    sorted(compatible_candidates(endpoints, client_format,
               global_conversion_enabled, enable_format_conversion,
               can_convert_full))

\* the scheduler builds the candidate list of a non-streaming request
BuildCandidates ==
    /\ NoCallMade
    /\ \E endpoints \in EndpointLists,
          client_format \in {"claude:chat", "openai:chat"},
          global_conversion_enabled \in BOOLEAN,
          enable_format_conversion \in BOOLEAN, can_convert_full \in BOOLEAN :
         sched' =
            [called |-> TRUE, endpoints |-> endpoints,
             client_format |-> client_format,
             global_conversion_enabled |-> global_conversion_enabled,
             enable_format_conversion |-> enable_format_conversion,
             candidates |-> build_candidates(endpoints, client_format,
                                global_conversion_enabled,
                                enable_format_conversion, can_convert_full)]
    /\ UNCHANGED <<programVars, compat, billing, shadow, sig, tokens, detect, _rule_cache, clock, got, due, submit, rule, evict>>

FormatNext == CheckCompatibility \/ BuildCandidates

(***************************************************************************)
(* Billing: precision, BillingService.calculate                            *)
(***************************************************************************)
\* money is counted in units of 1e-9; Quantum is 1e-8, the storage precision
Quantum == 10

\* quantize_decimal(value, precision=BILLING_STORAGE_PRECISION), ROUND_HALF_UP
quantize_cost(value) ==
    IF value >= 0
    THEN ((value + Quantum \div 2) \div Quantum) * Quantum
    ELSE 0 - (((0 - value) + Quantum \div 2) \div Quantum) * Quantum

\* what FormulaEngine.evaluate hands back for one request: status, cost and
\* cost_breakdown
CostNames == {"input_cost", "request_cost"}
Amounts == {0, 5, 14, 200000, 2000000}
EvaluationResults ==
    [status : {"complete", "incomplete"}, cost : {0, 5, 200000},
     cost_breakdown : UNION {[names -> Amounts] : names \in SUBSET CostNames}]

\* the rule lookup and the evaluation of a call: no rule found, a result,
\* or BillingIncompleteError raised under strict mode
NoResult == [status |-> "incomplete", cost |-> 0, cost_breakdown |-> <<>>]
Evaluations ==
    {[kind |-> "no_rule", result |-> NoResult],
     [kind |-> "raise", result |-> NoResult]}
      \cup {[kind |-> "result", result |-> r] : r \in EvaluationResults}

RECURSIVE SumOver(_, _)
SumOver(f, names) ==
    IF names = {} THEN 0
    ELSE LET n == CHOOSE n \in names : TRUE
         IN  f[n] + SumOver(f, names \ {n})

\* sum(breakdown.values(), Decimal("0"))
sum(f) == SumOver(f, DOMAIN f)

NoSnapshot == [present |-> FALSE]

BillingSnapshot(cost_breakdown, total_cost, status) ==
    [present |-> TRUE, cost_breakdown |-> cost_breakdown,
     total_cost |-> total_cost, status |-> status]

CostResult(cost, status, snapshot) ==
    [raised |-> FALSE, cost |-> cost, status |-> status, snapshot |-> snapshot]

\* total_dec: the sum of the quantized components, or the evaluation's cost
\* when there are no components
total_dec(breakdown_quantized, cost) ==
    IF DOMAIN breakdown_quantized # {}
    THEN quantize_cost(sum(breakdown_quantized))
    ELSE quantize_cost(cost)

\* the dimensions of a call, as far as the rules below read them: with or
\* without a request_count
Dimensions == {<<>>} \cup {[d \in {"request_count"} |-> n] : n \in {0, 1}}

\* a default that also replaces a request_count of 0
with_request_count_if_falsy(dimensions) ==
    IF "request_count" \in DOMAIN dimensions /\ dimensions["request_count"] # 0
    THEN dimensions
    ELSE [d \in {"request_count"} |-> 1]

\* dims["request_count"] = 1 where the caller gave none
with_request_count(dimensions) ==
    IF "request_count" \in DOMAIN dimensions
    THEN dimensions
    ELSE [d \in {"request_count"} |-> 1]

\* FormulaEngine.evaluate: the request_cost of the rule is its price per
\* request times the request_count of the dimensions
evaluate(result, dims) ==
    [result EXCEPT !.cost_breakdown =
        [k \in DOMAIN result.cost_breakdown |->
            IF k = "request_cost"
            THEN result.cost_breakdown[k] * dims["request_count"]
            ELSE result.cost_breakdown[k]]]

\* BillingService.calculate, given what find_rule comes to and the prices
\* the rule evaluates with
calculate(evaluation, dimensions) ==
    IF evaluation.kind = "raise"
    THEN [raised |-> TRUE, cost |-> 0, status |-> "raised", snapshot |-> NoSnapshot]
    ELSE IF evaluation.kind = "no_rule"
    THEN CostResult(0, "no_rule", BillingSnapshot(<<>>, 0, "no_rule"))
    ELSE LET dims == with_request_count(dimensions)
             result == evaluate(evaluation.result, dims)
             breakdown_quantized ==
                 [k \in DOMAIN result.cost_breakdown |->
                     quantize_cost(result.cost_breakdown[k])]
             total_cost == IF result.status = "complete"
                           THEN total_dec(breakdown_quantized, result.cost)
                           ELSE 0
         IN  CostResult(total_cost, result.status,
                 BillingSnapshot(breakdown_quantized, total_cost, result.status))

NoBilling ==
    [called |-> FALSE, evaluation |-> [kind |-> "no_rule", result |-> NoResult],
     dimensions |-> <<>>, result |-> CostResult(0, "no_rule", NoSnapshot)]

\* a caller has a task's cost calculated
Calculate ==
    /\ NoCallMade
    /\ \E evaluation \in Evaluations, dimensions \in Dimensions :
         billing' = [called |-> TRUE, evaluation |-> evaluation,
                     dimensions |-> dimensions,
                     result |-> calculate(evaluation, dimensions)]
    /\ UNCHANGED <<programVars, compat, sched, shadow, sig, tokens, detect, _rule_cache, clock, got, due, submit, rule, evict>>

(***************************************************************************)
(* Shadow billing: calculate_with_shadow                                   *)
(***************************************************************************)
\* what resolve_engine_mode can return; "off" stands for an unknown value
EngineModes == {"legacy", "shadow", "new_with_fallback", "new", "off"}

\* billing_diff_threshold_usd, 0.0001
threshold == 100000

CostBreakdown(input_cost, output_cost, cache_creation_cost, cache_read_cost, request_cost, total_cost) ==
    [input_cost |-> input_cost, output_cost |-> output_cost,
     cache_creation_cost |-> cache_creation_cost,
     cache_read_cost |-> cache_read_cost, request_cost |-> request_cost,
     total_cost |-> total_cost]

LegacyTruths ==
    {CostBreakdown(0, 0, 0, 0, 0, 0),
     CostBreakdown(200000, 0, 0, 0, 0, 200000),
     CostBreakdown(1000000, 0, 0, 0, 0, 1000000),
     CostBreakdown(1000000, 3000000, 0, 0, 0, 4000000)}

\* shadow_snapshot.cost_breakdown.get(name, 0.0)
component(snapshot, name) ==
    IF name \in DOMAIN snapshot.cost_breakdown
    THEN snapshot.cost_breakdown[name]
    ELSE 0

abs(x) == IF x >= 0 THEN x ELSE 0 - x

\* a choice of truth that takes the new engine's breakdown in shadow mode too
truth_of_new_engine(engine_mode, legacy_truth, new_breakdown, diff) ==
    IF engine_mode \in {"shadow", "new"}
    THEN [truth_engine |-> "new", truth |-> new_breakdown, was_fallback |-> FALSE]
    ELSE IF engine_mode = "new_with_fallback"
    THEN IF diff > threshold * 10
         THEN [truth_engine |-> "legacy", truth |-> legacy_truth, was_fallback |-> TRUE]
         ELSE [truth_engine |-> "new", truth |-> new_breakdown, was_fallback |-> FALSE]
    ELSE [truth_engine |-> "legacy", truth |-> legacy_truth, was_fallback |-> FALSE]

\* a choice of truth that falls back as soon as the diff reaches the limit
truth_of_early_fallback(engine_mode, legacy_truth, new_breakdown, diff) ==
    IF engine_mode = "shadow"
    THEN [truth_engine |-> "legacy", truth |-> legacy_truth, was_fallback |-> FALSE]
    ELSE IF engine_mode = "new"
    THEN [truth_engine |-> "new", truth |-> new_breakdown, was_fallback |-> FALSE]
    ELSE IF engine_mode = "new_with_fallback"
    THEN IF diff >= threshold * 10
         THEN [truth_engine |-> "legacy", truth |-> legacy_truth, was_fallback |-> TRUE]
         ELSE [truth_engine |-> "new", truth |-> new_breakdown, was_fallback |-> FALSE]
    ELSE [truth_engine |-> "legacy", truth |-> legacy_truth, was_fallback |-> FALSE]

\* the choice of the billable truth
truth_of(engine_mode, legacy_truth, new_breakdown, diff) ==
    IF engine_mode = "shadow"
    THEN [truth_engine |-> "legacy", truth |-> legacy_truth, was_fallback |-> FALSE]
    ELSE IF engine_mode = "new"
    THEN [truth_engine |-> "new", truth |-> new_breakdown, was_fallback |-> FALSE]
    ELSE IF engine_mode = "new_with_fallback"
    THEN IF diff > threshold * 10
         THEN [truth_engine |-> "legacy", truth |-> legacy_truth, was_fallback |-> TRUE]
         ELSE [truth_engine |-> "new", truth |-> new_breakdown, was_fallback |-> FALSE]
    ELSE [truth_engine |-> "legacy", truth |-> legacy_truth, was_fallback |-> FALSE]

\* calculate_with_shadow past the legacy return: the new engine is run on
\* the request's dimensions and compared with the legacy truth
reconcile(engine_mode, legacy_truth, is_failed_request, evaluation) ==
    LET dimensions == [request_count |-> IF is_failed_request THEN 0 ELSE 1]
        new_result == calculate(evaluation, dimensions)
        shadow_snapshot == new_result.snapshot
        new_breakdown ==
            CostBreakdown(component(shadow_snapshot, "input_cost"),
                          component(shadow_snapshot, "output_cost"),
                          component(shadow_snapshot, "cache_creation_cost"),
                          component(shadow_snapshot, "cache_read_cost"),
                          component(shadow_snapshot, "request_cost"),
                          shadow_snapshot.total_cost)
        diff == abs(new_breakdown.total_cost - legacy_truth.total_cost)
        chosen == truth_of(engine_mode, legacy_truth, new_breakdown, diff)
    IN  IF new_result.raised
        THEN [returned |-> FALSE, engine_mode |-> engine_mode,
              dimensions |-> dimensions, new_engine_calls |-> 1]
        ELSE [returned |-> TRUE,
              truth_breakdown |-> chosen.truth,
              shadow_snapshot |->
                  IF engine_mode \in {"shadow", "new_with_fallback", "new"}
                  THEN shadow_snapshot ELSE NoSnapshot,
              comparison |->
                  [engine_mode |-> engine_mode,
                   old_total |-> legacy_truth.total_cost,
                   new_total |-> new_breakdown.total_cost,
                   diff_usd |-> diff,
                   exceeds_threshold |-> diff > threshold],
              engine_mode |-> engine_mode,
              truth_engine |-> chosen.truth_engine,
              was_fallback |-> chosen.was_fallback,
              valid |-> abs(chosen.truth.input_cost + chosen.truth.output_cost
                            + chosen.truth.cache_creation_cost
                            + chosen.truth.cache_read_cost
                            + chosen.truth.request_cost
                            - chosen.truth.total_cost) < Quantum,
              dimensions |-> dimensions,
              new_engine_calls |-> 1]

\* a service without the early return of legacy mode
calculate_with_shadow_unguarded(engine_mode, legacy_truth, is_failed_request, evaluation) ==
    reconcile(engine_mode, legacy_truth, is_failed_request, evaluation)

calculate_with_shadow(engine_mode, legacy_truth, is_failed_request, evaluation) ==
    IF engine_mode = "legacy"
    THEN [returned |-> TRUE,
          truth_breakdown |-> legacy_truth,
          shadow_snapshot |-> NoSnapshot,
          comparison |-> [engine_mode |-> engine_mode],
          engine_mode |-> engine_mode,
          truth_engine |-> "legacy",
          was_fallback |-> FALSE,
          new_engine_calls |-> 0]
    ELSE reconcile(engine_mode, legacy_truth, is_failed_request, evaluation)

NoShadow ==
    [called |-> FALSE, engine_mode |-> "legacy",
     legacy_truth |-> CostBreakdown(0, 0, 0, 0, 0, 0),
     is_failed_request |-> FALSE,
     evaluation |-> [kind |-> "no_rule", result |-> NoResult],
     result |-> [returned |-> FALSE]]

\* usage settlement asks for the billable truth of a request
CalculateWithShadow ==
    /\ NoCallMade
    /\ \E engine_mode \in EngineModes, legacy_truth \in LegacyTruths,
          is_failed_request \in BOOLEAN, evaluation \in Evaluations :
         shadow' = [called |-> TRUE, engine_mode |-> engine_mode,
                    legacy_truth |-> legacy_truth,
                    is_failed_request |-> is_failed_request,
                    evaluation |-> evaluation,
                    result |-> calculate_with_shadow(engine_mode, legacy_truth,
                                  is_failed_request, evaluation)]
    /\ UNCHANGED <<programVars, compat, sched, billing, sig, tokens, detect, _rule_cache, clock, got, due, submit, rule, evict>>

BillingNext == Calculate \/ CalculateWithShadow

(***************************************************************************)
(* Endpoint signatures: make, parse and normalize                          *)
(***************************************************************************)
\* a string is the sequence of its pieces: a run of whitespace, a colon, or
\* a word in one spelling
Pieces == {" ", ":", "openai", "OPENAI", "claude", "chat", "CHAT", "x"}
Strings == UNION {[1..n -> Pieces] : n \in 0..MaxSignatureLen}

ApiFamily == {"openai", "claude", "gemini"}
EndpointKind == {"chat", "cli", "video", "image"}

RECURSIVE strip_leading(_)
strip_leading(text) ==
    IF text # <<>> /\ Head(text) = " " THEN strip_leading(Tail(text)) ELSE text

RECURSIVE strip_trailing(_)
strip_trailing(text) ==
    IF text # <<>> /\ text[Len(text)] = " "
    THEN strip_trailing(SubSeq(text, 1, Len(text) - 1))
    ELSE text

\* str.strip()
strip(text) == strip_trailing(strip_leading(text))

\* the place of the first colon of a text that has one
colon(text) == CHOOSE i \in 1..Len(text) : text[i] = ":" /\ \A j \in 1..(i - 1) : text[j] # ":"

\* make_signature_key; an enum member is given as its value, which strip
\* and lower leave as it is
make_signature_key(api_family, endpoint_kind) ==
    lower(strip(api_family)) \o <<":">> \o lower(strip(endpoint_kind))

InvalidSignature == [ok |-> FALSE, api_family |-> None, endpoint_kind |-> None]

\* parse_signature_key; ok = FALSE stands for the ValueError
parse_signature_key(value) ==
    LET raw == strip(value)
    IN  IF raw = <<>> \/ \A i \in 1..Len(raw) : raw[i] # ":"
        THEN InvalidSignature
        ELSE LET fam == lower(strip(SubSeq(raw, 1, colon(raw) - 1)))
                 kind == lower(strip(SubSeq(raw, colon(raw) + 1, Len(raw))))
             IN  IF /\ Len(fam) = 1 /\ fam[1] \in ApiFamily
                    /\ Len(kind) = 1 /\ kind[1] \in EndpointKind
                 THEN [ok |-> TRUE, api_family |-> fam[1], endpoint_kind |-> kind[1]]
                 ELSE InvalidSignature

\* EndpointSignature.key
key(signature) ==
    make_signature_key(<<signature.api_family>>, <<signature.endpoint_kind>>)

\* normalize_signature_key; ok = FALSE stands for the ValueError
normalize_signature_key(value) ==
    LET signature == parse_signature_key(value)
    IN  IF signature.ok THEN [ok |-> TRUE, key |-> key(signature)]
        ELSE [ok |-> FALSE, key |-> <<>>]

NoSignature == [called |-> FALSE, op |-> "none"]

\* a string is parsed, made into a key again and normalized, once and twice
ParseSignature ==
    /\ NoCallMade
    /\ \E value \in Strings :
         LET parsed == parse_signature_key(value)
             normalized == normalize_signature_key(value)
         IN  sig' = [called |-> TRUE, op |-> "parse", value |-> value,
                     parsed |-> parsed,
                     made |-> IF parsed.ok THEN key(parsed) ELSE <<>>,
                     normalized |-> normalized,
                     twice |-> IF normalized.ok
                               THEN normalize_signature_key(normalized.key)
                               ELSE normalized]
    /\ UNCHANGED <<programVars, compat, sched, billing, shadow, tokens, detect, _rule_cache, clock, got, due, submit, rule, evict>>

\* the key of a signature is normalized and parsed back
KeyRoundTrip ==
    /\ NoCallMade
    /\ \E api_family \in ApiFamily, endpoint_kind \in EndpointKind :
         LET s == [ok |-> TRUE, api_family |-> api_family,
                   endpoint_kind |-> endpoint_kind]
             normalized == normalize_signature_key(key(s))
         IN  sig' = [called |-> TRUE, op |-> "key", signature |-> s,
                     key |-> key(s), normalized |-> normalized,
                     back |-> IF normalized.ok
                              THEN parse_signature_key(normalized.key)
                              ELSE InvalidSignature]
    /\ UNCHANGED <<programVars, compat, sched, billing, shadow, tokens, detect, _rule_cache, clock, got, due, submit, rule, evict>>

(***************************************************************************)
(* Token normalization for billing                                         *)
(***************************************************************************)
\* the api_format of a usage: None or a string
NoFormat == [none |-> TRUE, text |-> <<>>]
Text(text) == [none |-> FALSE, text |-> text]
ApiFormatArgs ==
    {NoFormat, Text(<<>>), Text(<<" ">>),
     Text(<<"openai", ":", "cli">>), Text(<<" ", "OPENAI", ":", "CHAT">>),
     Text(<<"claude", ":", "cli">>), Text(<<"claude", ":", "chat">>),
     Text(<<"gemini", ":", "chat">>), Text(<<"gemini", ":", "video">>),
     Text(<<"x", ":", "chat">>), Text(<<"openai">>)}

\* _is_claude_family / _is_openai_family: "yes", "no", or "raise" where
\* parse_signature_key raises ValueError
is_family(api_format, family) ==
    IF api_format.none THEN "no"
    ELSE IF strip(api_format.text) = <<>> THEN "no"
    ELSE LET signature == parse_signature_key(strip(api_format.text))
         IN  IF ~signature.ok THEN "raise"
             ELSE IF signature.api_family = family THEN "yes"
             ELSE "no"

_is_claude_family(api_format) == is_family(api_format, "claude")

_is_openai_family(api_format) == is_family(api_format, "openai")

max(a, b) == IF a >= b THEN a ELSE b

Returned(value) == [raised |-> FALSE, value |-> value]
Raised == [raised |-> TRUE, value |-> 0]

normalize_input_tokens_for_billing(api_format, input_tokens, cache_read_tokens) ==
    IF input_tokens <= 0
    THEN Returned(IF input_tokens = 0 THEN 0 ELSE input_tokens)
    ELSE IF cache_read_tokens <= 0 THEN Returned(input_tokens)
    ELSE IF _is_claude_family(api_format) = "raise" THEN Raised
    ELSE IF _is_claude_family(api_format) = "yes" THEN Returned(input_tokens)
    ELSE IF _is_openai_family(api_format) = "raise" THEN Raised
    ELSE IF _is_openai_family(api_format) = "yes"
    THEN Returned(max(input_tokens - cache_read_tokens, 0))
    ELSE Returned(input_tokens)

NoTokens == [called |-> FALSE]

\* the input tokens of a usage are normalized for billing
NormalizeTokens ==
    /\ NoCallMade
    /\ \E api_format \in ApiFormatArgs, input_tokens \in 0..MaxTokens,
          cache_read_tokens \in 0..MaxTokens :
         tokens' = [called |-> TRUE, api_format |-> api_format,
                    input_tokens |-> input_tokens,
                    cache_read_tokens |-> cache_read_tokens,
                    result |-> normalize_input_tokens_for_billing(api_format,
                                   input_tokens, cache_read_tokens)]
    /\ UNCHANGED <<programVars, compat, sched, billing, shadow, sig, detect, _rule_cache, clock, got, due, submit, rule, evict>>

(***************************************************************************)
(* Request detection (core/api_format/detection.py)                        *)
(***************************************************************************)
\* a header value is a text: a sequence of pieces, as a signature string is
HeaderNames == {"x-api-key", "anthropic-version", "x-goog-api-key", "authorization"}

\* the values a client sends in each header; every source carries its own key
HeaderValues(name) ==
    CASE name = "x-api-key" -> {<<>>, <<"kX">>}
      [] name = "anthropic-version" -> {<<>>, <<"2023-06-01">>}
      [] name = "x-goog-api-key" -> {<<>>, <<"kG">>}
      [] name = "authorization" ->
            {<<"Bearer", " ", "kB">>, <<"bearer", " ", " ", "kB", " ">>,
             <<"Basic", " ", "kB">>, <<"Bearer">>, <<"Bearer", " ">>}

\* the header dictionaries (keys in lower case): any subset of the headers
Headers ==
    UNION {{h \in [S -> UNION {HeaderValues(n) : n \in HeaderNames}] :
               \A n \in S : h[n] \in HeaderValues(n)} : S \in SUBSET HeaderNames}

\* query_params: None, a dictionary without "key", or one with it
QueryParams ==
    {[none |-> TRUE, dict |-> <<>>]}
        \cup {[none |-> FALSE, dict |-> d] :
                 d \in {<<>>} \cup {[k \in {"key"} |-> v] : v \in {<<>>, <<"kQ">>}}}

\* a value that may be None
NoValue == [none |-> TRUE, text |-> <<>>]

\* dict.get(name): None when the key is missing
lookup(dict, name) == IF name \in DOMAIN dict THEN Text(dict[name]) ELSE NoValue

\* the truth value of an optional string
truthy(value) == ~value.none /\ value.text # <<>>

\* query_params.get("key") if query_params else None
query_key_of(query_params) ==
    IF ~query_params.none /\ query_params.dict # <<>>
    THEN lookup(query_params.dict, "key")
    ELSE NoValue

\* headers.get("authorization", "")
auth_header_of(headers) ==
    IF "authorization" \in DOMAIN headers THEN headers["authorization"] ELSE <<>>

\* auth_header.lower().startswith("bearer ")
is_bearer(auth_header) ==
    /\ Len(auth_header) >= 2
    /\ lower(auth_header)[1] = "bearer"
    /\ auth_header[2] = " "

\* auth_header[7:].strip()
bearer_token(auth_header) == Text(strip(SubSeq(auth_header, 3, Len(auth_header))))

_detect_auth_method(headers, query_params) ==
    LET query_key == query_key_of(query_params)
        x_goog_key == lookup(headers, "x-goog-api-key")
        x_api_key == lookup(headers, "x-api-key")
        auth_header == auth_header_of(headers)
    IN  IF truthy(query_key)
        THEN [auth_method |-> "query_key", credentials |-> query_key]
        ELSE IF truthy(x_goog_key)
        THEN [auth_method |-> "goog_key", credentials |-> x_goog_key]
        ELSE IF truthy(x_api_key)
        THEN [auth_method |-> "api_key", credentials |-> x_api_key]
        ELSE IF is_bearer(auth_header)
        THEN [auth_method |-> "bearer", credentials |-> bearer_token(auth_header)]
        ELSE [auth_method |-> "bearer", credentials |-> NoValue]

detect_format_from_request_api_key_first(headers, query_params) ==
    LET found == _detect_auth_method(headers, query_params)
    IN  [endpoint |-> [api_family |-> "openai", endpoint_kind |-> "chat"],
         api_key |-> found.credentials,
         auth_source |-> IF found.auth_method = "query_key" THEN "query" ELSE "header"]

detect_format_from_request(headers, query_params) ==
    LET query_key == query_key_of(query_params)
        x_goog_key == lookup(headers, "x-goog-api-key")
        x_api_key == lookup(headers, "x-api-key")
        auth_header == auth_header_of(headers)
        Detected(family, api_key, auth_source) ==
            [endpoint |-> [api_family |-> family, endpoint_kind |-> "chat"],
             api_key |-> api_key, auth_source |-> auth_source]
    IN  IF truthy(x_api_key) /\ truthy(lookup(headers, "anthropic-version"))
        THEN Detected("claude", x_api_key, "header")
        ELSE IF truthy(query_key)
        THEN Detected("gemini", query_key, "query")
        ELSE IF truthy(x_goog_key)
        THEN Detected("gemini", x_goog_key, "header")
        ELSE IF is_bearer(auth_header)
        THEN Detected("openai", bearer_token(auth_header), "header")
        ELSE IF truthy(x_api_key)
        THEN Detected("openai", x_api_key, "header")
        ELSE Detected("openai", NoValue, "header")

NoDetection == [called |-> FALSE, op |-> "none"]

\* detect_request_context asks for the auth method of a request
DetectAuthMethod ==
    /\ NoCallMade
    /\ \E headers \in Headers, query_params \in QueryParams :
         detect' = [called |-> TRUE, op |-> "_detect_auth_method",
                    headers |-> headers, query_params |-> query_params,
                    result |-> _detect_auth_method(headers, query_params)]
    /\ UNCHANGED <<programVars, compat, sched, billing, shadow, sig, tokens, _rule_cache, clock, got, due, submit, rule, evict>>

\* a route asks for the format and the key of a request
DetectFormatFromRequest ==
    /\ NoCallMade
    /\ \E headers \in Headers, query_params \in QueryParams :
         detect' = [called |-> TRUE, op |-> "detect_format_from_request",
                    headers |-> headers, query_params |-> query_params,
                    result |-> detect_format_from_request(headers, query_params)]
    /\ UNCHANGED <<programVars, compat, sched, billing, shadow, sig, tokens, _rule_cache, clock, got, due, submit, rule, evict>>

(***************************************************************************)
(* BillingCache (services/billing/cache.py)                                *)
(* A dict is a sequence of entries in insertion order; time.time() is the  *)
(* variable clock, which advances in steps of ClockStep seconds.           *)
(***************************************************************************)
TTL_SECONDS == 300
\* the limit of entries per cache: 2048 in cache.py, scaled here to the
\* smallest limit whose quarter, the number of entries an overflow evicts,
\* is at least one
MAX_ENTRIES == 4
ClockStep == 100

\* the cache keys find_rule builds: provider, model, task type, require flag
CacheKeys == {<<"p1", "m1", "chat", "require=1">>, <<"p1", "m2", "chat", "require=1">>}
CacheValues == {"rule1", "rule2"}
Needles == {"", "m1", "chat", "video"}

\* the position of a key in a dict, 0 when the dict lacks it
position(cache, cache_key) ==
    IF \E i \in 1..Len(cache) : cache[i].key = cache_key
    THEN CHOOSE i \in 1..Len(cache) : cache[i].key = cache_key
    ELSE 0

\* del cache[key] / cache.pop(key, None)
delete(cache, cache_key) == LET other(e) == e.key # cache_key IN SelectSeq(cache, other)

\* cache[key] = (value, now): an existing key keeps its place
store(cache, cache_key, value, ts) ==
    LET i == position(cache, cache_key)
        item == [key |-> cache_key, value |-> value, ts |-> ts]
    IN  IF i = 0 THEN Append(cache, item) ELSE [cache EXCEPT ![i] = item]

\* sorted(cache.keys(), key=lambda k: cache[k][1]): the place of an entry in
\* the stable sort by timestamp
sorted_rank(cache, i) ==
    Cardinality({j \in 1..Len(cache) :
                    \/ cache[j].ts < cache[i].ts
                    \/ cache[j].ts = cache[i].ts /\ j < i}) + 1

_evict_oldest(cache, count) ==
    IF cache = <<>> \/ count <= 0 THEN cache
    ELSE LET rank(e) == sorted_rank(cache, position(cache, e.key))
             younger(e) == rank(e) > count
         IN  SelectSeq(cache, younger)

_get_expired_kept(cache, cache_key, time) ==
    LET i == position(cache, cache_key)
    IN  IF i = 0
        THEN [value |-> None, cache |-> cache]
        ELSE IF time - cache[i].ts <= TTL_SECONDS
        THEN [value |-> cache[i].value, cache |-> cache]
        ELSE [value |-> None, cache |-> delete(cache, cache_key)]

\* BillingCache._get: the value returned and the dict as the call leaves it
_get(cache, cache_key, time) ==
    LET i == position(cache, cache_key)
    IN  IF i = 0
        THEN [value |-> None, cache |-> cache]
        ELSE IF time - cache[i].ts < TTL_SECONDS
        THEN [value |-> cache[i].value, cache |-> cache]
        ELSE [value |-> None, cache |-> delete(cache, cache_key)]

\* BillingCache._set
_set(cache, cache_key, value, time) ==
    LET stored == store(cache, cache_key, value, time)
    IN  IF Len(stored) > MAX_ENTRIES
        THEN _evict_oldest(stored, MAX_ENTRIES \div 4)
        ELSE stored

\* needle in k
contains(cache_key, needle) == \E i \in 1..Len(cache_key) : cache_key[i] = needle

\* BillingCache._invalidate_by_substring
_invalidate_by_substring(cache, needle) ==
    IF needle = "" THEN cache
    ELSE LET other(e) == ~contains(e.key, needle) IN SelectSeq(cache, other)

NoGet == [called |-> FALSE]

\* BillingCache.set_rule
SetRule ==
    /\ \E cache_key \in CacheKeys, value \in CacheValues :
         _rule_cache' = _set(_rule_cache, cache_key, value, clock)
    /\ UNCHANGED <<programVars, compat, sched, billing, shadow, sig, tokens,
                   detect, clock, got, due, submit, rule, evict>>

\* BillingCache.get_rule; got keeps what the call was given, what it found,
\* what it returned and whether it left the key in the dict
GetRule ==
    /\ \E cache_key \in CacheKeys :
         LET i == position(_rule_cache, cache_key)
             result == _get(_rule_cache, cache_key, clock)
         IN  /\ _rule_cache' = result.cache
             /\ got' = [called |-> TRUE, key |-> cache_key, at |-> clock,
                        found |-> i # 0,
                        stored_at |-> IF i = 0 THEN Absent ELSE _rule_cache[i].ts,
                        stored |-> IF i = 0 THEN None ELSE _rule_cache[i].value,
                        value |-> result.value,
                        left |-> position(result.cache, cache_key) # 0]
    /\ UNCHANGED <<programVars, compat, sched, billing, shadow, sig, tokens,
                   detect, clock, due, submit, rule, evict>>

\* BillingCache.invalidate_all
InvalidateAll ==
    /\ _rule_cache' = <<>>
    /\ UNCHANGED <<programVars, compat, sched, billing, shadow, sig, tokens,
                   detect, clock, got, due, submit, rule, evict>>

\* BillingCache.invalidate_model
InvalidateModel ==
    /\ \E model_name \in Needles :
         _rule_cache' = _invalidate_by_substring(_rule_cache, model_name)
    /\ UNCHANGED <<programVars, compat, sched, billing, shadow, sig, tokens,
                   detect, clock, got, due, submit, rule, evict>>

\* time passes
ClockTick ==
    /\ clock < MaxClock * ClockStep
    /\ clock' = clock + ClockStep
    /\ UNCHANGED <<programVars, compat, sched, billing, shadow, sig, tokens,
                   detect, _rule_cache, got, due, submit, rule, evict>>

CacheNext == SetRule \/ GetRule \/ InvalidateAll \/ InvalidateModel \/ ClockTick

\* the key of the n-th model of a provider
model_key(n) == <<"p1", n, "chat", "require=1">>

\* the dicts earlier traffic can have left: up to MAX_ENTRIES keys in the
\* order of their first store, each last stored at 0 or at ClockStep
FilledCaches ==
    UNION {{[i \in 1..n |-> [key |-> model_key(i), value |-> "rule1", ts |-> stamps[i]]] :
               stamps \in [1..n -> {0, ClockStep}]} : n \in 0..MAX_ENTRIES}

NoEviction == [called |-> FALSE]

\* two lookups on a filled cache: get_rule of one key (read = 0: no read),
\* then set_rule of another; evict keeps the dict before, the dict between
\* the store and the eviction, and for each key the time of its last use
ReadThenStore ==
    /\ NoCallMade
    /\ \E before \in FilledCaches, read \in 0..MAX_ENTRIES, written \in 1..(MAX_ENTRIES + 1) :
         LET at == 2 * ClockStep
             looked == IF read = 0 THEN [value |-> None, cache |-> before]
                       ELSE _get(before, model_key(read), at)
         IN  /\ _rule_cache' = _set(looked.cache, model_key(written), "rule2", at)
             /\ clock' = at
             /\ evict' = [called |-> TRUE, before |-> before, read |-> read,
                          hit |-> looked.value # None, written |-> written,
                          stored |-> store(looked.cache, model_key(written), "rule2", at),
                          used |-> [k \in 1..(MAX_ENTRIES + 1) |->
                                      IF k = written THEN at
                                      ELSE IF k = read /\ looked.value # None THEN at
                                      ELSE IF k <= Len(before) THEN before[k].ts
                                      ELSE Absent]]
    /\ UNCHANGED <<programVars, compat, sched, billing, shadow, sig, tokens,
                   detect, got, due, submit, rule>>

EvictionNext == ReadThenStore

(***************************************************************************)
(* list_due_task_ids: the query over the video_tasks table                 *)
(***************************************************************************)
VideoStatus ==
    {"pending", "submitted", "queued", "processing", "completed", "failed", "cancelled"}

\* a row of video_tasks, as far as the query reads it; max_poll_count is 1
Rows ==
    [status : VideoStatus, next_poll_at : 0..2, poll_count : 0..1,
     max_poll_count : {1}]

\* the table: the id of a row is its place
Tables == UNION {[1..n -> Rows] : n \in 0..MaxTasks}

\* .filter(...): the ids of the rows the WHERE clause keeps
filter_ignoring_poll_count(table, at) ==
    {id \in DOMAIN table :
        /\ table[id].status \in {"submitted", "queued", "processing"}
        /\ table[id].next_poll_at <= at}

filter(table, at) ==
    {id \in DOMAIN table :
        /\ table[id].status \in {"submitted", "queued", "processing"}
        /\ table[id].next_poll_at <= at
        /\ table[id].poll_count < table[id].max_poll_count}

\* .order_by(next_poll_at.asc()): the orders the database may return the
\* kept rows in; rows with equal next_poll_at come in any order
order_by(table, ids) ==
    {ordered \in [1..Cardinality(ids) -> ids] :
        /\ \A i, j \in DOMAIN ordered : i # j => ordered[i] # ordered[j]
        /\ \A i, j \in DOMAIN ordered :
              i < j => table[ordered[i]].next_poll_at <= table[ordered[j]].next_poll_at}

\* .limit(limit)
limit_to(ordered, limit) == SubSeq(ordered, 1, min(limit, Len(ordered)))

\* the lists of ids the query may return
list_due_task_ids(table, at, limit) ==
    {limit_to(ordered, limit) : ordered \in order_by(table, filter(table, at))}

NoQuery == [called |-> FALSE]

\* a tick scans the table for due tasks
ListDueTaskIds ==
    /\ NoCallMade
    /\ \E table \in Tables, limit \in 1..MaxTasks :
         \E ids \in list_due_task_ids(table, 1, limit) :
            due' = [called |-> TRUE, table |-> table, now |-> 1,
                    limit |-> limit, ids |-> ids]
    /\ UNCHANGED <<programVars, compat, sched, billing, shadow, sig, tokens,
                   detect, _rule_cache, clock, got, submit, rule, evict>>

(***************************************************************************)
(* Billing rule lookup (rule_templates.py, rule_service.py)                *)
(***************************************************************************)
\* a CodeBillingRuleTemplate: match is None, or a predicate that returns
\* true or false or raises; build is None, or a function that returns a rule
\* or raises (build is looked at only after match has let the template pass)
RuleTemplates ==
    {t \in [task_types : {{"chat"}, {"video"}}, priority : {0, 1},
            match : {None, "True", "False", "raise"},
            build : {None, "rule", "raise"}] :
        t.match \in {"False", "raise"} => t.build = "rule"}

\* the TEMPLATES of the modules, in import order; a template's name is its place
TemplateLists == UNION {[1..n -> RuleTemplates] : n \in 0..MaxTemplates}

\* effective_rule_task_type
effective_rule_task_type(task_type) == IF task_type = "cli" THEN "chat" ELSE task_type

\* CodeBillingRuleTemplate.supports
supports(t, task_type) == task_type \in t.task_types

\* templates.sort(key=priority, reverse=True): the place of template i after
\* the stable sort
sorted_place(templates, i) ==
    Cardinality({j \in DOMAIN templates :
                    \/ templates[j].priority > templates[i].priority
                    \/ templates[j].priority = templates[i].priority /\ j < i}) + 1

\* discover_rule_templates: the names of the templates, highest priority first
discover_rule_templates(templates) ==
    [k \in 1..Len(templates) |->
        CHOOSE i \in DOMAIN templates : sorted_place(templates, i) = k]

\* the loop of resolve_rule takes template t
takes(t, task_type) ==
    /\ supports(t, task_type)
    /\ t.match \in {None, "True"}
    /\ t.build = "rule"

\* a resolve_rule that lets a template without a build function end the search
resolve_rule_stopping_at_first_match(templates, task_type) ==
    LET order == discover_rule_templates(templates)
        matched == {k \in 1..Len(order) :
                       /\ supports(templates[order[k]], task_type)
                       /\ templates[order[k]].match \in {None, "True"}}
    IN  IF matched = {} THEN 0
        ELSE LET first == CHOOSE k \in matched : \A other \in matched : k <= other
             IN  IF templates[order[first]].build = "rule" THEN order[first] ELSE 0

\* CodeBillingRuleTemplateService.resolve_rule: the name of the template
\* whose build returned the rule, 0 for None
resolve_rule(templates, task_type) ==
    LET order == discover_rule_templates(templates)
        taken == {k \in 1..Len(order) : takes(templates[order[k]], task_type)}
    IN  IF taken = {} THEN 0
        ELSE order[CHOOSE k \in taken : \A other \in taken : k <= other]

\* BillingRuleService.find_rule on a cache miss: the code rule resolve_rule
\* gave (not_called when the GlobalModel is missing) and the lookup result
find_rule(global_model, templates, task_type, billing_require_rule) ==
    LET effective_task == effective_rule_task_type(task_type)
        code_rule == resolve_rule(templates, effective_task)
    IN  IF ~global_model
        THEN [code_rule |-> "not_called", result |-> None]
        ELSE IF code_rule # 0
        THEN [code_rule |-> code_rule, result |-> "code_rule"]
        ELSE IF effective_task = "chat" \/ ~billing_require_rule
        THEN [code_rule |-> code_rule, result |-> "default_rule"]
        ELSE [code_rule |-> code_rule, result |-> None]

NoRule == [called |-> FALSE]

\* a settlement looks the billing rule of a model up
FindRule ==
    /\ NoCallMade
    /\ \E global_model \in BOOLEAN, templates \in TemplateLists,
          task_type \in {"chat", "cli", "video"},
          billing_require_rule \in BOOLEAN :
         rule' = [called |-> TRUE, global_model |-> global_model,
                  templates |-> templates, task_type |-> task_type,
                  billing_require_rule |-> billing_require_rule,
                  found |-> find_rule(global_model, templates, task_type,
                                      billing_require_rule)]
    /\ UNCHANGED <<programVars, compat, sched, billing, shadow, sig, tokens,
                   detect, _rule_cache, clock, got, due, submit, evict>>

RuleNext == FindRule

LookupNext == ListDueTaskIds

(***************************************************************************)
(* _submit_with_failover: the failover loop of a video submission          *)
(***************************************************************************)
\* max_candidates as GeminiVeoHandler passes it
max_candidates == 10

\* the limits a caller passes: small ones, and the handler's
CandidateLimits == (1..MaxRanked) \cup {max_candidates}

NoSubmit == [pc |-> "idle", candidates |-> <<>>, limit |-> 0,
             attempts |-> <<>>, result |-> "none"]

\* the handler submits: the scheduler ranked the candidates
StartSubmit ==
    /\ NoCallMade
    /\ \E n \in 0..MaxRanked, limit \in CandidateLimits :
         submit' = [pc |-> "loop", candidates |-> [i \in 1..n |-> i],
                    limit |-> limit, attempts |-> <<>>, result |-> "none"]
    /\ UNCHANGED <<programVars, compat, sched, billing, shadow, sig, tokens,
                   detect, _rule_cache, clock, got, due, rule, evict>>

\* a loop that tries every candidate, whatever the limit
next_candidate_unlimited(candidates, limit, attempts) ==
    IF Len(attempts) < Len(candidates) THEN candidates[Len(attempts) + 1] ELSE 0

\* the candidate the loop tries next, 0 when the candidates or the limit are
\* exhausted
next_candidate(candidates, limit, attempts) ==
    IF Len(attempts) < Len(candidates) /\ Len(attempts) < limit
    THEN candidates[Len(attempts) + 1]
    ELSE 0

\* one attempt: the upstream accepts the submission or fails retryably
SubmitAttempt ==
    /\ submit.pc = "loop"
    /\ next_candidate(submit.candidates, submit.limit, submit.attempts) # 0
    /\ \E outcome \in {"success", "failure"} :
         LET candidate == next_candidate(submit.candidates, submit.limit,
                                         submit.attempts)
         IN  submit' = [submit EXCEPT
                          !.attempts = Append(@, [candidate |-> candidate,
                                                  outcome |-> outcome]),
                          !.pc = IF outcome = "success" THEN "done" ELSE "loop",
                          !.result = IF outcome = "success" THEN "success"
                                     ELSE "none"]
    /\ UNCHANGED <<programVars, compat, sched, billing, shadow, sig, tokens,
                   detect, _rule_cache, clock, got, due, rule, evict>>

\* nothing is left to try: the submission fails
SubmitExhausted ==
    /\ submit.pc = "loop"
    /\ next_candidate(submit.candidates, submit.limit, submit.attempts) = 0
    /\ submit' = [submit EXCEPT !.pc = "done", !.result = "failure"]
    /\ UNCHANGED <<programVars, compat, sched, billing, shadow, sig, tokens,
                   detect, _rule_cache, clock, got, due, rule, evict>>

SubmitNext == StartSubmit \/ SubmitAttempt \/ SubmitExhausted

SignatureNext ==
    \/ ParseSignature \/ KeyRoundTrip \/ NormalizeTokens
    \/ DetectAuthMethod \/ DetectFormatFromRequest

InitCalls ==
    /\ compat = NoCall /\ sched = NoSchedule
    /\ billing = NoBilling /\ shadow = NoShadow
    /\ sig = NoSignature /\ tokens = NoTokens /\ detect = NoDetection
    /\ _rule_cache = <<>> /\ clock = 0 /\ got = NoGet
    /\ due = NoQuery
    /\ submit = NoSubmit /\ rule = NoRule /\ evict = NoEviction

(***************************************************************************)
(* Specifications                                                          *)
(***************************************************************************)
Init == InitRequest /\ InitVideo /\ InitCalls

Spec == Init /\ [][Next]_vars

\* the event loop runs the finalizer of a generator nobody holds any more
FairSpec == Spec /\ WF_vars(Finalize)

VideoSpec == Init /\ [][VideoNext]_vars

\* a deployment of one process
Scheduler == "poller-1"

FairVideoNext ==
    \/ Tick
    \/ Rebase
    \/ AcquireLock(Scheduler)
    \/ PollerStep(Scheduler)
    \/ Cancel

\* the poller under fair scheduling: time passes, the interval job of the
\* process fires, and a tick that holds the lock runs to its end
FairVideoSpec ==
    /\ Init
    /\ [][FairVideoNext]_vars
    /\ WF_vars(Tick \/ Rebase)
    /\ WF_vars(AcquireLock(Scheduler))
    /\ WF_vars(PollerStep(Scheduler))

FormatSpec == Init /\ [][FormatNext]_vars

BillingSpec == Init /\ [][BillingNext]_vars

SignatureSpec == Init /\ [][SignatureNext]_vars

CacheSpec == Init /\ [][CacheNext]_vars

LookupSpec == Init /\ [][LookupNext]_vars

RuleSpec == Init /\ [][RuleNext]_vars

EvictionSpec == Init /\ [][EvictionNext]_vars

\* an attempt returns or raises in bounded time (the upstream call has a
\* timeout), so the loop is never stuck before its next step
SubmitSpec == Init /\ [][SubmitNext]_vars /\ WF_vars(SubmitAttempt \/ SubmitExhausted)

(***************************************************************************)
(* Claims                                                                  *)
(***************************************************************************)
TokenCountersZero(c) ==
    /\ c.input_tokens = 0
    /\ c.output_tokens = 0
    /\ c.cached_tokens = 0
    /\ c.cache_creation_tokens = 0

\* C1: reset_for_retry leaves model and api_format alone and returns every
\* other field of the context, the resolved provider fields included, to its
\* initial value.  (The reset is the step that starts an attempt.)
C1_ResetRestoresAllButModelAndFormat ==
    [][attempt' = attempt + 1
         => ctx' = StreamContext(ctx.model, ctx.api_format)]_vars

\* C2: at most one attempt of the request is in flight, and an attempt after
\* the first begins, the previous one having ended, on a context that
\* reset_for_retry has emptied: no parsed chunks, zero counters, status 200.
C2_AttemptsSerialAndReset ==
    /\ Cardinality(inflight) <= 1
    /\ (pc = "resolve" /\ attempt > 1)
         => /\ inflight = {}
            /\ ctx.parsed_chunks = <<>>
            /\ TokenCountersZero(ctx)
            /\ ctx.data_count = 0
            /\ ctx.chunk_count = 0
            /\ ctx.status_code = 200

C2_Witness ==
    pc = "resolve" /\ attempt = 2 /\ ctx.provider_name = ProviderNames[1]

\* a line prefetch decodes to a dict the parser calls an error response
ErrorLine(line) ==
    /\ ~is_empty(rstrip(line))
    /\ rstrip(line).prefix # ":"
    /\ json_loads(data_str_of(rstrip(line))) = "dict"
    /\ is_error_response(data_str_of(rstrip(line)))

\* the prefetched buffer as a whole is a JSON error object
ErrorBuffer(lines) ==
    /\ starts_with_json(joined_text(lines))
    /\ json_loads(joined_json(joined_text(lines))) = "dict"
    /\ is_error_response(joined_json(joined_text(lines)))

CarriesError(lines) ==
    \/ \E i \in 1..Len(lines) : ErrorLine(lines[i])
    \/ ErrorBuffer(lines)

C4_PrefetchErrorsRetryLaterErrorsStamp ==
    /\ prefetchError # "none"
         => sent = <<>> /\ pc \in {"prefetch_raised", "select", "failed"}
    /\ sent # <<>> => pc \in {"streaming", "done"}
    /\ mon = "raised"
         => ctx.status_code = 500 /\ ctx.error_message # None

ChunksOf(lines) == [i \in 1..Len(lines) |-> chunk_of(lines[i])]

\* C5: the chunks create_response_stream emits are, one for one and in order,
\* the chunks of the upstream lines read: the prefetched lines first, then
\* the live ones; a stream read to its end has emitted every line.
C5_LinesForwardedInOrder ==
    gen # "none"
      => /\ Len(emitted) <= Len(upstream)
         /\ emitted = ChunksOf(SubSeq(upstream, 1, Len(emitted)))
         /\ SubSeq(upstream, 1, Len(prefetched_lines)) = prefetched_lines
         /\ Len(emitted) < Len(prefetched_lines)
              => Len(upstream) = Len(prefetched_lines)
         /\ nextPrefetched > Len(prefetched_lines)
              => Len(emitted) = Len(upstream)

C5_Witness ==
    /\ gen = "finished"
    /\ Len(prefetched_lines) = 2
    /\ Len(upstream) = 3
    /\ emitted = ChunksOf(upstream)

\* C6: once is_disconnected() answered true, or the task was cancelled, the
\* context says 499 / client_disconnected, the chunk in hand and any later
\* one are not given to the client, and no other attempt starts.
C6_DisconnectIsTerminal ==
    [][/\ mon' \in {"disconnected", "cancelled"}
            => /\ ctx'.status_code = 499
               /\ ctx'.error_message = "client_disconnected"
               /\ sent' = sent
               /\ attempt' = attempt
               /\ pc' = "done"]_vars

C6_Witness ==
    mon = "disconnected" /\ Len(sent) = 1 /\ Len(emitted) = 2

GeneratorExited == gen \in {"finished", "raised", "cancelled", "closed"}

\* C7: however create_response_stream is left (iterator exhausted, exception,
\* cancellation, close), the release of the response context and of the HTTP
\* client were both carried out, and no exception of the cleanup escaped.
C7_BothReleasedOnEveryExit ==
    /\ ~cleanupRaised
    /\ GeneratorExited
         => /\ response_ctx \in {"released", "release_raised"}
            /\ http_client \in {"released", "release_raised"}

C7_Witness ==
    /\ gen = "closed"
    /\ response_ctx = "release_raised"
    /\ http_client = "released"

C9_PrefetchTimeoutIsRetried ==
    prefetchError = "transport"
      => /\ pc \notin {"streaming", "done"}
         /\ mon = "none"
         /\ sent = <<>>

\* C10: a task that is completed, failed or cancelled keeps its status,
\* video_url, error_code and completed_at under every later poll update.
C10_TerminalTaskIsFrozen ==
    [][task.status \in TerminalStatuses
         => /\ task'.status = task.status
            /\ task'.video_url = task.video_url
            /\ task'.error_code = task.error_code
            /\ task'.completed_at = task.completed_at]_vars

\* the step is an update_task_after_poll by some poller
UpdateStep == \E p \in Pollers : poll[p].phase = "polled" /\ poll'[p].phase = "idle"

\* C11: after every update_task_after_poll the task is terminal with
\* completed_at set, or its next_poll_at is strictly later than the time of
\* the update.
C11_UpdateEndsOrReschedules ==
    [][UpdateStep
         => \/ task'.status \in TerminalStatuses /\ task'.completed_at # Absent
            \/ task'.next_poll_at > now']_vars

\* a transient poll error has been backed off: the task is still active
C11_Witness ==
    /\ task.status \in ActiveStatuses
    /\ task.retry_count = 1
    /\ task.poll_count = 1
    /\ task.next_poll_at > now

\* pollers with a poll under way (task loaded, GET issued or result in hand)
Polling == {p \in Pollers : poll[p].phase # "idle"}

\* C12: at any time at most one poller process has scanned the due task and
\* is polling it: no two processes have a poll of the task under way at once.
C12_OneProcessPollsAtATime == Cardinality(Polling) <= 1

FormatsDiffer ==
    compat.called /\ upper(compat.client_format) # upper(compat.endpoint_api_format)

\* C14: is_format_compatible called with a client format and an endpoint
\* format that are equal up to case returns (true, false, nil), whatever the
\* config, is_stream, the global flag and skip_endpoint_check.
C14_SameFormatPassesThrough ==
    compat.called /\ ~FormatsDiffer => compat.result = Result(TRUE, FALSE, None)

C14_Witness ==
    /\ compat.called
    /\ compat.client_format = "claude:chat"
    /\ compat.endpoint_api_format = "CLAUDE:CHAT"
    /\ ~compat.effective_conversion_enabled
    /\ compat.config.kind = "None"
    /\ compat.is_stream
    /\ compat.result.is_compatible

EndpointDecided ==
    /\ FormatsDiffer
    /\ compat.effective_conversion_enabled
    /\ ~compat.skip_endpoint_check
    /\ compat.result.is_compatible

\* C16 as stated: such a call is compatible only if the config has
\* enabled = true, the client format is not in reject_formats, and for a
\* streaming request stream_conversion is true.
C16_CompatibleOnlyIfStreamConversionTrue ==
    EndpointDecided
      => /\ compat.config.kind = "dict"
         /\ compat.config.enabled = "True"
         /\ upper(compat.client_format) \notin uppers(compat.config.reject_formats)
         /\ compat.is_stream => compat.config.stream_conversion = "True"

\* C16, amended: such a call is compatible only if the config has
\* enabled = true, the client format is not in reject_formats (a format in
\* both lists is rejected), and for a streaming request stream_conversion is
\* true or missing from the config.
C16_CompatibleOnlyIfEndpointAccepts ==
    EndpointDecided
      => /\ compat.config.kind = "dict"
         /\ compat.config.enabled = "True"
         /\ upper(compat.client_format) \notin uppers(compat.config.reject_formats)
         /\ compat.is_stream => compat.config.stream_conversion # "False"

C16_Witness ==
    /\ EndpointDecided
    /\ compat.is_stream
    /\ compat.config.stream_conversion = "missing"
    /\ compat.config.reject_formats = {"CLAUDE:CLI"}
    /\ compat.config.accept_formats = {"claude:chat", "CLAUDE:CLI"}
    /\ compat.client_format = "CLAUDE:CHAT"
    /\ compat.result.needs_conversion

\* C17: in the list build_candidates returns, every candidate that needs no
\* conversion comes before every candidate that needs one, whatever the
\* order of the endpoints and keys.
C17_ExactFormatFirst ==
    sched.called
      => \A i, j \in 1..Len(sched.candidates) :
            /\ ~sched.candidates[i].needs_conversion
            /\ sched.candidates[j].needs_conversion
            => i < j

C17_Witness ==
    /\ sched.called
    /\ Len(sched.candidates) = 2
    /\ sched.candidates[1].endpoint = 2
    /\ ~sched.candidates[1].needs_conversion
    /\ sched.candidates[1].internal_priority = 2
    /\ sched.candidates[2].needs_conversion
    /\ sched.candidates[2].internal_priority = 1

\* the calls of BillingService.calculate that end with status complete
Complete ==
    billing.called /\ ~billing.result.raised /\ billing.result.status = "complete"

\* C18: for every result of BillingService.calculate with status
\* complete, total_cost is within 1e-8 of the sum of the cost_breakdown
\* values, each of them quantized to 8 decimal places.
C18_TotalIsSumOfComponents ==
    Complete
      => LET snapshot == billing.result.snapshot
         IN  /\ \A k \in DOMAIN snapshot.cost_breakdown :
                    snapshot.cost_breakdown[k] % Quantum = 0
             /\ abs(snapshot.total_cost - sum(snapshot.cost_breakdown)) <= Quantum

\* what holds of calculate: where the cost_breakdown of a complete result is
\* not empty, total_cost is the sum of its values, each of them the
\* evaluation's component rounded to 8 decimal places.
TotalIsSumOfPresentComponents ==
    Complete /\ DOMAIN billing.result.snapshot.cost_breakdown # {}
      => LET snapshot == billing.result.snapshot
             evaluated == evaluate(billing.evaluation.result,
                            with_request_count(billing.dimensions)).cost_breakdown
         IN  /\ DOMAIN snapshot.cost_breakdown = DOMAIN evaluated
             /\ \A k \in DOMAIN snapshot.cost_breakdown :
                    /\ snapshot.cost_breakdown[k] % Quantum = 0
                    /\ 2 * abs(snapshot.cost_breakdown[k] - evaluated[k]) <= Quantum
             /\ abs(snapshot.total_cost - sum(snapshot.cost_breakdown)) <= Quantum
             /\ billing.result.cost = snapshot.total_cost

\* C19: in engine mode shadow, whatever the new engine's result and the
\* diff, calculate_with_shadow returns the supplied legacy_truth as
\* truth_breakdown with truth_engine "legacy", the new engine's snapshot as
\* shadow_snapshot, and the diff of the two totals as comparison.diff_usd.
C19_ShadowKeepsLegacyTruth ==
    shadow.called /\ shadow.engine_mode = "shadow" /\ shadow.evaluation.kind # "raise"
      => /\ shadow.result.returned
         /\ shadow.result.truth_breakdown = shadow.legacy_truth
         /\ shadow.result.truth_engine = "legacy"
         /\ shadow.result.shadow_snapshot
              = calculate(shadow.evaluation, shadow.result.dimensions).snapshot
         /\ shadow.result.comparison.diff_usd
              = abs(calculate(shadow.evaluation, shadow.result.dimensions).snapshot.total_cost
                    - shadow.legacy_truth.total_cost)

C19_Witness ==
    /\ shadow.called
    /\ shadow.engine_mode = "shadow"
    /\ shadow.result.returned
    /\ shadow.legacy_truth.total_cost = 200000
    /\ shadow.result.shadow_snapshot.present
    /\ shadow.result.shadow_snapshot.status = "complete"
    /\ shadow.result.shadow_snapshot.total_cost = 2000000
    /\ shadow.result.comparison.exceeds_threshold
    /\ shadow.result.truth_breakdown.total_cost = 200000

\* C20: in engine mode legacy, calculate_with_shadow never invokes the new
\* engine and returns truth_breakdown = legacy_truth, truth_engine "legacy",
\* no shadow_snapshot and was_fallback false.
C20_LegacySkipsNewEngine ==
    shadow.called /\ shadow.engine_mode = "legacy"
      => /\ shadow.result.returned
         /\ shadow.result.new_engine_calls = 0
         /\ shadow.result.truth_breakdown = shadow.legacy_truth
         /\ shadow.result.truth_engine = "legacy"
         /\ shadow.result.shadow_snapshot = NoSnapshot
         /\ ~shadow.result.was_fallback

C20_Witness ==
    /\ shadow.called
    /\ shadow.engine_mode = "legacy"
    /\ shadow.evaluation.kind = "raise"
    /\ shadow.legacy_truth.total_cost = 4000000
    /\ shadow.result.returned
    /\ shadow.result.truth_breakdown.total_cost = 4000000

\* the breakdown of the new engine, read off the snapshot the call returned
NewBreakdown ==
    LET snapshot == shadow.result.shadow_snapshot
    IN  CostBreakdown(component(snapshot, "input_cost"),
                      component(snapshot, "output_cost"),
                      component(snapshot, "cache_creation_cost"),
                      component(snapshot, "cache_read_cost"),
                      component(snapshot, "request_cost"),
                      snapshot.total_cost)

\* |new total - legacy total| of the call
TotalsDiff ==
    abs(shadow.result.shadow_snapshot.total_cost - shadow.legacy_truth.total_cost)

\* C21: in engine mode new_with_fallback the truth is the new engine's
\* breakdown (truth_engine "new", was_fallback false) unless
\* |new total - legacy total| > 10 x the diff threshold, and then it is
\* legacy_truth with truth_engine "legacy" and was_fallback true; in mode new
\* the truth is always the new engine's breakdown.
C21_FallbackOnlyAboveTenThresholds ==
    shadow.called /\ shadow.result.returned
      => /\ shadow.engine_mode = "new_with_fallback" /\ TotalsDiff > 10 * threshold
              => /\ shadow.result.truth_breakdown = shadow.legacy_truth
                 /\ shadow.result.truth_engine = "legacy"
                 /\ shadow.result.was_fallback
         /\ (\/ shadow.engine_mode = "new_with_fallback" /\ TotalsDiff <= 10 * threshold
             \/ shadow.engine_mode = "new")
              => /\ shadow.result.truth_breakdown = NewBreakdown
                 /\ shadow.result.truth_engine = "new"
                 /\ ~shadow.result.was_fallback

C21_Witness ==
    /\ shadow.called
    /\ shadow.result.returned
    /\ shadow.engine_mode = "new_with_fallback"
    /\ shadow.legacy_truth.total_cost = 1000000
    /\ shadow.result.shadow_snapshot.total_cost = 2000000
    /\ shadow.result.truth_engine = "new"
    /\ shadow.result.truth_breakdown.total_cost = 2000000

\* C22: for every failed request (status_code >= 400, is_failed_request
\* true) the new engine is given request_count = 0, and the request_cost
\* component of its snapshot is 0.
C22_FailedRequestHasNoRequestCost ==
    shadow.called /\ shadow.is_failed_request /\ shadow.engine_mode # "legacy"
      => /\ shadow.result.dimensions["request_count"] = 0
         /\ shadow.result.returned /\ shadow.result.shadow_snapshot.present
              => component(shadow.result.shadow_snapshot, "request_cost") = 0

C22_Witness ==
    /\ shadow.called
    /\ shadow.is_failed_request
    /\ shadow.engine_mode = "shadow"
    /\ shadow.evaluation.kind = "result"
    /\ shadow.evaluation.result.status = "complete"
    /\ DOMAIN shadow.evaluation.result.cost_breakdown = CostNames
    /\ shadow.evaluation.result.cost_breakdown["request_cost"] = 200000
    /\ shadow.evaluation.result.cost_breakdown["input_cost"] = 2000000
    /\ shadow.result.returned
    /\ shadow.result.shadow_snapshot.total_cost = 2000000

\* the family a format names: "none" for None and for a blank string,
\* "unknown" for a string that is no signature
NamedFamily ==
    IF tokens.api_format.none \/ strip(tokens.api_format.text) = <<>> THEN "none"
    ELSE IF parse_signature_key(tokens.api_format.text).ok
    THEN parse_signature_key(tokens.api_format.text).api_family
    ELSE "unknown"

\* C23: normalize_input_tokens_for_billing(format, in, cached) returns in for
\* every claude format, max(in - cached, 0) for every openai and every gemini
\* format, and in for an unknown, empty or None format.
C23_NormalizedInputTokens ==
    tokens.called
      => /\ ~tokens.result.raised
         /\ tokens.result.value
              = IF NamedFamily \in {"openai", "gemini"}
                THEN max(tokens.input_tokens - tokens.cache_read_tokens, 0)
                ELSE tokens.input_tokens

\* what holds of the function: the claimed values for claude, openai, None
\* and blank formats
NormalizedInputTokensOfKnownFamilies ==
    tokens.called /\ NamedFamily \in {"claude", "openai", "none"}
      => /\ ~tokens.result.raised
         /\ tokens.result.value
              = IF NamedFamily = "openai"
                THEN max(tokens.input_tokens - tokens.cache_read_tokens, 0)
                ELSE tokens.input_tokens

\* the valid signature strings: a family and a kind in any letter case,
\* joined by a colon, with whitespace around them
ValidSignature ==
    /\ sig.called /\ sig.op = "parse"
    /\ \E f \in {"openai", "OPENAI", "claude"}, k \in {"chat", "CHAT"} :
         sig.value \in {<<f, ":", k>>, <<" ", f, ":", k>>, <<f, ":", k, " ">>,
                        <<" ", f, ":", k, " ">>}

\* C24: for every valid signature string x, in any letter case and with
\* surrounding whitespace, make_signature_key(parse_signature_key(x)) =
\* normalize_signature_key(x); normalize_signature_key is idempotent; and
\* for every signature s, parse_signature_key(normalize_signature_key(s.key))
\* has the key s.key.
C24_SignatureRoundTrip ==
    /\ ValidSignature
         => /\ sig.parsed.ok /\ sig.normalized.ok /\ sig.twice.ok
            /\ sig.made = sig.normalized.key
            /\ sig.twice.key = sig.normalized.key
            /\ sig.normalized.key
                 = <<sig.parsed.api_family, ":", sig.parsed.endpoint_kind>>
    /\ sig.called /\ sig.op = "key"
         => /\ sig.normalized.ok /\ sig.back.ok
            /\ key(sig.back) = sig.key
            /\ sig.back = sig.signature

C24_Witness ==
    /\ ValidSignature
    /\ sig.value = <<" ", "OPENAI", ":", "CHAT", " ">>
    /\ sig.normalized.ok
    /\ sig.normalized.key = <<"openai", ":", "chat">>
    /\ sig.made = <<"openai", ":", "chat">>

\* the credential a request carries in each place, None when it carries none
Carried(headers, query_params) ==
    [query |-> query_key_of(query_params),
     goog |-> lookup(headers, "x-goog-api-key"),
     api_key |-> lookup(headers, "x-api-key"),
     bearer |-> IF is_bearer(auth_header_of(headers))
                THEN bearer_token(auth_header_of(headers))
                ELSE NoValue,
     bearer_sent |-> is_bearer(auth_header_of(headers)),
     anthropic |-> truthy(lookup(headers, "anthropic-version"))]

\* the first credential of a list of places that the request carries
RECURSIVE FirstCarried(_, _)
FirstCarried(carried, places) ==
    IF places = <<>> THEN NoValue
    ELSE IF Head(places) = "bearer" /\ carried.bearer_sent THEN carried.bearer
    ELSE IF Head(places) # "bearer" /\ truthy(carried[Head(places)])
    THEN carried[Head(places)]
    ELSE FirstCarried(carried, Tail(places))

\* the credential a detection call extracted
Extracted ==
    IF detect.op = "_detect_auth_method"
    THEN detect.result.credentials
    ELSE detect.result.api_key

\* C25 (as stated): both _detect_auth_method and detect_format_from_request
\* extract the credential of the first of ?key=, x-goog-api-key, x-api-key,
\* Authorization: Bearer that the request carries.
C25_CredentialPriority ==
    detect.called =>
        Extracted = FirstCarried(Carried(detect.headers, detect.query_params),
                                 <<"query", "goog", "api_key", "bearer">>)

\* C25 (amended): _detect_auth_method extracts the credential of the first of
\* ?key=, x-goog-api-key, x-api-key, Authorization: Bearer that the request
\* carries; detect_format_from_request returns the x-api-key value when the
\* request also carries anthropic-version, and otherwise the first of ?key=,
\* x-goog-api-key, Authorization: Bearer, x-api-key.
C25_CredentialPriorityPerFunction ==
    detect.called =>
        LET carried == Carried(detect.headers, detect.query_params)
        IN  Extracted =
              IF detect.op = "_detect_auth_method"
              THEN FirstCarried(carried, <<"query", "goog", "api_key", "bearer">>)
              ELSE IF truthy(carried.api_key) /\ carried.anthropic
              THEN carried.api_key
              ELSE FirstCarried(carried, <<"query", "goog", "bearer", "api_key">>)

\* a request with an x-api-key and a bearer token had its format detected
C25_Witness ==
    /\ detect.called
    /\ detect.op = "detect_format_from_request"
    /\ truthy(lookup(detect.headers, "x-api-key"))
    /\ is_bearer(auth_header_of(detect.headers))
    /\ ~truthy(lookup(detect.headers, "anthropic-version"))
    /\ ~truthy(query_key_of(detect.query_params))
    /\ detect.result.api_key = Text(<<"kB">>)

\* C26: a get of the billing cache never returns a value stored 300 seconds
\* or more before it, and the get that finds an expired entry removes it.
C26_GetNeverReturnsExpired ==
    got.called =>
        /\ got.value # None => got.found /\ got.at - got.stored_at < 300
        /\ got.found /\ got.at - got.stored_at >= 300 => ~got.left

\* a get found an entry stored exactly 300 seconds before and removed it
C26_Witness ==
    /\ got.called /\ got.found
    /\ got.at - got.stored_at = 300
    /\ got.value = None /\ ~got.left

\* the poller whose update_task_after_poll the step is, and what it was given
Updater == CHOOSE p \in Pollers : poll[p].phase = "polled" /\ poll'[p].phase = "idle"
ErrorStep == UpdateStep /\ poll[Updater].exception # "none" /\ pollCtx[Updater].present

\* C27: every poll of the task increments its poll_count by exactly 1,
\* whatever the poll came back with.
C27_EveryPollCounts ==
    [][UpdateStep => task'.poll_count = task.poll_count + 1]_vars

\* C28: an update that leaves poll_count >= max_poll_count on a task that is
\* not completed, failed or cancelled marks it failed with poll_timeout and
\* sets completed_at; after an update the task is never non-terminal with
\* poll_count >= max_poll_count.
C28_TimeoutAtMaxPollCount ==
    [][UpdateStep
         => /\ task'.poll_count >= task'.max_poll_count
               => task'.status \in TerminalStatuses
            /\ (/\ task'.poll_count >= task'.max_poll_count
                /\ task.status \in ActiveStatuses
                /\ (poll[Updater].exception # "none"
                        => task'.error_code # "poll_permanent_error")
                /\ (poll[Updater].exception = "none"
                        => poll[Updater].status \notin {"completed", "failed"}))
               => /\ task'.status = "failed"
                  /\ task'.error_code = "poll_timeout"
                  /\ task'.completed_at = now]_vars

\* the task ran out of polls and was failed with poll_timeout
C28_Witness ==
    /\ task.status = "failed"
    /\ task.error_code = "poll_timeout"
    /\ task.poll_count = task.max_poll_count
    /\ task.completed_at # Absent

\* the error's HTTP status is a client error other than 429
ClientErrorStatus(exc) ==
    /\ exc.status_code # Absent
    /\ 400 <= exc.status_code /\ exc.status_code < 500 /\ exc.status_code # 429

\* the error's message contains one of the indicators, whatever the case
IndicatorInMessage(exc) ==
    \E i \in 1..Len(exc.message) : lower(exc.message)[i] \in _PERMANENT_ERROR_INDICATORS

C30_BackoffFromTaskRetryCount ==
    [][ErrorStep /\ ~_is_permanent_error(poll[Updater].message,
                                         poll[Updater].status_code)
         => /\ task'.retry_count = task.retry_count + 1
            /\ task'.next_poll_at =
                 now + min(task.poll_interval_seconds
                               * pow2(min(task.retry_count, 5)), 300)]_vars

\* C31: list_due_task_ids returns only tasks whose status is submitted,
\* queued or processing, whose next_poll_at is not after now and whose
\* poll_count is below max_poll_count; at most limit of them, in ascending
\* order of next_poll_at; a pending, completed, failed or cancelled task is
\* never among them.
C31_OnlyDueTasksInOrder ==
    due.called =>
        /\ Len(due.ids) <= due.limit
        /\ \A i \in 1..Len(due.ids) :
              LET t == due.table[due.ids[i]]
              IN  /\ t.status \in {"submitted", "queued", "processing"}
                  /\ t.status \notin {"pending", "completed", "failed", "cancelled"}
                  /\ t.next_poll_at <= due.now
                  /\ t.poll_count < t.max_poll_count
        /\ \A i, j \in 1..Len(due.ids) :
              i < j => due.table[due.ids[i]].next_poll_at
                          <= due.table[due.ids[j]].next_poll_at

\* two tasks were due and the limit let only the earlier one through
C31_Witness ==
    /\ due.called
    /\ due.limit = 1
    /\ Len(due.table) = 2
    /\ due.table[1].status = "processing" /\ due.table[1].next_poll_at = 1
    /\ due.table[1].poll_count = 0
    /\ due.table[2].status = "submitted" /\ due.table[2].next_poll_at = 0
    /\ due.table[2].poll_count = 0
    /\ due.ids = <<2>>

\* the place of an event in the session of the last update, 0 when absent
EventAt(events, e) ==
    IF e \in Range(events) THEN CHOOSE i \in 1..Len(events) : events[i] = e ELSE 0

\* C32: whenever a poll update leaves the task completed or failed,
\* finalize_video_task is invoked in the update's session before its commit,
\* and a settlement that raises does not keep the terminal row from being
\* committed.
C32_SettledInSessionBeforeCommit ==
    [][UpdateStep
         => LET row == update_task_after_poll(task, poll[Updater],
                                              pollCtx[Updater], now)
                events == updated'.events
            IN  row.status \in {"completed", "failed"}
                   => /\ EventAt(events, "create_session") = 1
                      /\ EventAt(events, "finalize_video_task") > 1
                      /\ EventAt(events, "finalize_video_task")
                            < EventAt(events, "commit")
                      /\ task' = row]_vars

\* the settlement of a completed task raised and the row was committed
C32_Witness ==
    /\ updated.settlement = "raised"
    /\ "logger.exception" \in Range(updated.events)
    /\ "commit" \in Range(updated.events)
    /\ task.status = "completed"

\* the error codes of the configuration and state faults of a poll
FaultCodes == {"missing_provider_info", "decryption_error", "missing_external_task_id"}

\* the fault the row of the task has, as far as the row shows it
RowFault(t) ==
    IF t.endpoint_id = None \/ t.key_id = None THEN "missing_provider_info"
    ELSE IF t.external_task_id = None THEN "missing_external_task_id"
    ELSE "none"

\* C33: a poll that hits a configuration or state fault (no endpoint_id or
\* key_id, a key that cannot be decrypted, no external_task_id) ends with the
\* task failed under the fault's error code, without an upstream HTTP call
\* and without a retry being scheduled.
C33_FaultFailsWithoutHttpOrRetry ==
    [][UpdateStep
         => LET result == poll[Updater]
            IN  /\ RowFault(task) # "none"
                   => result.error_code \in
                         {RowFault(task), "provider_config_error", "decryption_error"}
                /\ RowFault(task) = "missing_provider_info"
                   => result.error_code = "missing_provider_info"
                /\ result.error_code \in FaultCodes
                   => /\ ~result.http_called
                      /\ task'.status = "failed"
                      /\ task'.error_code = result.error_code
                      /\ task'.retry_count = task.retry_count
                      /\ task'.next_poll_at = task.next_poll_at
                      /\ ~list_due(task', now)]_vars

\* a task without external_task_id was failed by its first poll
C33_Witness ==
    /\ task.external_task_id = None
    /\ task.status = "failed"
    /\ task.error_code = "missing_external_task_id"
    /\ task.poll_count = 0 /\ task.retry_count = 0

\* the line is blank or a comment
BlankOrComment(line) == is_empty(rstrip(line)) \/ rstrip(line).prefix = ":"

\* the line ends the prefetch: [DONE], or a data line json.loads decodes
StopsPrefetch(line) ==
    /\ ~BlankOrComment(line)
    /\ \/ data_str_of(rstrip(line)) = "[DONE]"
       \/ json_loads(data_str_of(rstrip(line))) # "JSONDecodeError"

\* C34: prefetch_and_check_error consumes at most max_prefetch_lines lines
\* of the upstream iterator (blank and comment lines included), consumes
\* nothing after the first [DONE] line or JSON-decodable data line, and every
\* line it consumed is in the list it returns.
C34_PrefetchConsumesAtMostMaxLines ==
    /\ Len(prefetched_lines) <= max_prefetch_lines
    /\ \A i \in 1..(Len(prefetched_lines) - 1) : ~StopsPrefetch(prefetched_lines[i])
    /\ pc \in {"prefetch", "prefetch_returned", "prefetch_raised"}
          => upstream = prefetched_lines

\* the prefetch returned at the limit on blank and comment lines alone
C34_Witness ==
    /\ pc = "prefetch_returned"
    /\ max_prefetch_lines = 2
    /\ Len(prefetched_lines) = 2
    /\ \A i \in 1..2 : BlankOrComment(prefetched_lines[i])
    /\ iter = "open"

\* the attempts of the loop so far follow the ranked order, one candidate
\* each, within the limit, and nothing follows a success
AttemptsInRankedOrder ==
    /\ Len(submit.attempts) <= submit.limit
    /\ Len(submit.attempts) <= Len(submit.candidates)
    /\ \A i \in 1..Len(submit.attempts) :
          submit.attempts[i].candidate = submit.candidates[i]
    /\ \A i, j \in 1..Len(submit.attempts) :
          i # j => submit.attempts[i].candidate # submit.attempts[j].candidate
    /\ \A i \in 1..(Len(submit.attempts) - 1) : submit.attempts[i].outcome = "failure"

\* the loop ended on its first success, or failed with nothing left to try
EndedOnSuccessOrExhaustion ==
    submit.pc = "done" =>
        \/ /\ submit.result = "success"
           /\ submit.attempts # <<>>
           /\ submit.attempts[Len(submit.attempts)].outcome = "success"
        \/ /\ submit.result = "failure"
           /\ \A i \in 1..Len(submit.attempts) : submit.attempts[i].outcome = "failure"
           /\ \/ Len(submit.attempts) = Len(submit.candidates)
              \/ Len(submit.attempts) = submit.limit

Qualifying ==
    LET templates == rule.templates
        order == discover_rule_templates(templates)
        effective_task == effective_rule_task_type(rule.task_type)
    IN  {k \in 1..Len(order) : /\ supports(templates[order[k]], effective_task)
                               /\ templates[order[k]].match \in {None, "True"}}

\* those of them whose build function is present and returns a rule
QualifyingAndBuilding ==
    {k \in Qualifying :
        rule.templates[discover_rule_templates(rule.templates)[k]].build = "rule"}

\* the template at the first of the places
FirstOf(places) ==
    discover_rule_templates(rule.templates)[CHOOSE k \in places : \A other \in places : k <= other]

\* find_rule falls back to the default generator only when no code rule was
\* resolved, and then exactly for chat or when billing_require_rule is off
FallbackOnlyForChatOrOptional ==
    (rule.called /\ rule.global_model) =>
        /\ (rule.found.result = "default_rule") <=>
              /\ rule.found.code_rule = 0
              /\ \/ effective_rule_task_type(rule.task_type) = "chat"
                 \/ ~rule.billing_require_rule
        /\ (rule.found.result = None) <=>
              /\ rule.found.code_rule = 0
              /\ effective_rule_task_type(rule.task_type) # "chat"
              /\ rule.billing_require_rule

\* C36 as stated: resolve_rule returns the rule built by the highest-priority
\* template that supports the task type (cli taken as chat) and whose match
\* predicate, when present, returns true, and None when there is no such
\* template; find_rule falls back to the default generator only for chat or
\* when billing_require_rule is false
C36_HighestPriorityTemplateWins ==
    /\ (rule.called /\ rule.global_model) =>
          rule.found.code_rule = IF Qualifying = {} THEN 0 ELSE FirstOf(Qualifying)
    /\ FallbackOnlyForChatOrOptional

\* C36 amended: resolve_rule returns the rule built by the highest-priority
\* template that supports the task type, whose match predicate, when present,
\* returns true, and whose build function is present and returns a rule; it
\* returns None when there is no such template, and find_rule falls back to
\* the default generator only for chat or when billing_require_rule is false
C36_HighestPriorityBuildingTemplateWins ==
    /\ (rule.called /\ rule.global_model) =>
          rule.found.code_rule =
              IF QualifyingAndBuilding = {} THEN 0 ELSE FirstOf(QualifyingAndBuilding)
    /\ FallbackOnlyForChatOrOptional

\* a cli lookup where the template of the higher priority is listed second
\* and fails to build, and the rule of the other one is returned
C36_Witness ==
    /\ rule.called /\ rule.global_model /\ rule.task_type = "cli"
    /\ Len(rule.templates) = 2
    /\ rule.templates[2].priority > rule.templates[1].priority
    /\ Qualifying = {1, 2}
    /\ rule.templates[2].build = "raise"
    /\ rule.found.code_rule = 1 /\ rule.found.result = "code_rule"

\* the keys the store of the eviction scenario removed from the dict
Evicted ==
    {k \in 1..(MAX_ENTRIES + 1) :
        /\ position(evict.stored, model_key(k)) # 0
        /\ position(_rule_cache, model_key(k)) = 0}

\* the keys it left in the dict
Kept == {k \in 1..(MAX_ENTRIES + 1) : position(_rule_cache, model_key(k)) # 0}

\* C37: after a set operation the cache map holds at most MAX_ENTRIES
\* entries, and the entries an overflowing insertion evicts are the least
\* recently used ones: no evicted entry was read or written more recently
\* than an entry that stayed
C37_BoundedAndLeastRecentlyUsedEvicted ==
    evict.called =>
        /\ Len(_rule_cache) <= MAX_ENTRIES
        /\ \A e \in Evicted, k \in Kept : evict.used[e] <= evict.used[k]

\* the half of C37 the code keeps: the size limit, with the entries evicted
\* being those stored longest ago
C37_BoundedAndOldestStoredEvicted ==
    evict.called =>
        /\ Len(_rule_cache) <= MAX_ENTRIES
        /\ \A e \in Evicted, k \in Kept :
              evict.stored[position(evict.stored, model_key(e))].ts
                  <= _rule_cache[position(_rule_cache, model_key(k))].ts

\* a full cache whose oldest entry is read and then overflows
C37_Witness ==
    /\ evict.called /\ Len(evict.before) = MAX_ENTRIES
    /\ evict.read = 1 /\ evict.hit /\ evict.before[1].ts = 0
    /\ evict.before[2].ts = ClockStep
    /\ Len(evict.stored) = MAX_ENTRIES + 1
    /\ Evicted = {1}

\* C38: under fair scheduling of the poller ticks a task created in status
\* submitted with max_poll_count >= 1 eventually reaches a terminal status:
\* a poll update that leaves the task non-terminal has incremented
\* poll_count, a non-terminal task has poll_count below max_poll_count, and
\* the task that ran out of polls is failed with poll_timeout
C38_EveryTaskTerminates ==
    /\ [][(UpdateStep /\ task'.status \notin TerminalStatuses)
             => task'.poll_count = task.poll_count + 1]_vars
    /\ [](task.status \notin TerminalStatuses => task.poll_count < task.max_poll_count)
    /\ <>(task.status \in TerminalStatuses)

\* a task whose polls all left it in progress, the last one after the
\* origin of time had moved, and that failed with poll_timeout
C38_Witness ==
    /\ task.status = "failed" /\ task.error_code = "poll_timeout"
    /\ task.poll_count = task.max_poll_count /\ task.max_poll_count >= 1
    /\ task.retry_count = 0
    /\ task.completed_at < task.poll_count * task.poll_interval_seconds

\* C39: a task is settled (finalize_video_task invoked) at most once over
\* its lifetime, whatever the interleaving of poll updates and cancel
C39_SettledAtMostOnce == settled <= 1

\* C40: within one create_response_stream call on_streaming_start is invoked
\* at most once; if a chunk was emitted the callback had been invoked by
\* then; and it is not invoked in an attempt that has no response stream,
\* as when the attempt fails during prefetch
C40_StreamingStartOnceBeforeFirstChunk ==
    /\ [](/\ startCalls <= 1
          /\ emitted # <<>> => startCalls = 1
          /\ (gen = "none" \/ pc = "prefetch_raised") => startCalls = 0)
    /\ [][(emitted = <<>> /\ emitted' # <<>>) => startCalls' = 1]_vars

\* a second attempt, after one that failed in prefetch, streamed its
\* prefetched lines and then a live line, and emitted chunks
C40_Witness ==
    /\ attempt >= 2 /\ prefetchError = "none"
    /\ Len(prefetched_lines) >= 1
    /\ nextPrefetched > Len(prefetched_lines)
    /\ Len(upstream) > Len(prefetched_lines)
    /\ emitted # <<>>
    /\ startCalls = 1

====
